---- MODULE Spec2Model ----
(***************************************************************************)
(* Conversational contract-intake engine of KontrataPH                     *)
(* (backend/agents/contract_agent.py, class ProperLLMAgent).               *)
(*                                                                         *)
(* Text is modelled by TLA+ strings and the Python string operations the   *)
(* agent uses (lower, strip, split, "in", startswith, the regular          *)
(* expressions) are computed character by character. The completion        *)
(* service, the named-entity tagger, the rule files and the importability  *)
(* of the renderers are the environment: they are chosen                   *)
(* nondeterministically from small sets.                                   *)
(***************************************************************************)
EXTENDS Integers, Sequences, FiniteSets, TLC

VARIABLES
    llm_available,          \* self.llm_available, probed once in __init__
    spacy_available,        \* SPACY_AVAILABLE, set at import time
    generators_importable,  \* whether contract_generator.* can be imported
    ph_laws,                \* self.ph_laws, loaded once in __init__
    sessions,               \* self.sessions : session id -> session dict
    contracts,              \* self.contracts : contract id -> record
    call,                   \* the last operation invoked and its arguments
    result,                 \* the dict the last operation returned
    gen_calls,              \* number of generate_contract calls so far
    threads,                \* the request threads of the host inside process_message
    probe,                  \* the arguments a helper of the agent is called with
    answer                  \* what the helper returned

vars == <<llm_available, spacy_available, generators_importable, ph_laws,
          sessions, contracts, call, result, gen_calls, threads, probe, answer>>

env == <<llm_available, spacy_available, generators_importable, ph_laws>>

(***************************************************************************)
(* Bounds                                                                  *)
(***************************************************************************)
MaxCalls == 3       \* calls of process_message and generate_contract

(***************************************************************************)
(* Python str primitives                                                   *)
(***************************************************************************)
UpperChars == "ABCDEFGHIJKLMNOPQRSTUVWXYZ"
LowerChars == "abcdefghijklmnopqrstuvwxyz"
DigitChars == "0123456789"

\* s[i] as a one-character string ("" outside the string)
CharAt(s, i) == IF i >= 1 /\ i <= Len(s) THEN SubSeq(s, i, i) ELSE ""

\* s[i-1:j] : characters i..j, clipped to the string
Slice(s, i, j) ==
    LET a == IF i < 1 THEN 1 ELSE i
        b == IF j > Len(s) THEN Len(s) ELSE j
    IN  IF a > b THEN "" ELSE SubSeq(s, a, b)

\* c in chars, for a one-character string c
IsIn(c, chars) == c # "" /\ \E i \in 1..Len(chars) : SubSeq(chars, i, i) = c

IsUpper(c) == IsIn(c, UpperChars)
IsLower(c) == IsIn(c, LowerChars)
IsAlpha(c) == IsUpper(c) \/ IsLower(c)
IsDigit(c) == IsIn(c, DigitChars)
\* \w of the re module (ASCII part)
IsWordChar(c) == IsAlpha(c) \/ IsDigit(c) \/ c = "_"
\* \s of the re module and the separators of str.split() / str.strip()
IsSpace(c) == c = " " \/ c = "\t" \/ c = "\n" \/ c = "\r" \/ c = "\f"

LowerChar(c) ==
    IF IsUpper(c)
    THEN LET i == CHOOSE k \in 1..26 : SubSeq(UpperChars, k, k) = c
         IN  SubSeq(LowerChars, i, i)
    ELSE c

UpperChar(c) ==
    IF IsLower(c)
    THEN LET i == CHOOSE k \in 1..26 : SubSeq(LowerChars, k, k) = c
         IN  SubSeq(UpperChars, i, i)
    ELSE c

RECURSIVE ConcatRange(_, _, _)
\* ''.join(parts[lo-1:hi]), computed by halving the range
ConcatRange(parts, lo, hi) ==
    IF lo > hi THEN ""
    ELSE IF lo = hi THEN parts[lo]
    ELSE LET mid == (lo + hi) \div 2
         IN  ConcatRange(parts, lo, mid) \o ConcatRange(parts, mid + 1, hi)

LowerAt(s, i) == LowerChar(CharAt(s, i))
\* str.lower()
Lower(s) == ConcatRange([i \in 1..Len(s) |-> LowerAt(s, i)], 1, Len(s))

\* str.capitalize(): first character upper-cased, the rest lower-cased
Capitalize(s) == IF s = "" THEN "" ELSE UpperChar(Head(s)) \o Lower(Tail(s))

TitleAt(s, i) ==
    LET c == CharAt(s, i)
    IN  IF IsAlpha(c)
        THEN (IF IsAlpha(CharAt(s, i - 1)) THEN LowerChar(c) ELSE UpperChar(c))
        ELSE c
\* str.title(): every run of letters starts upper-case and continues lower-case
Title(s) == ConcatRange([i \in 1..Len(s) |-> TitleAt(s, i)], 1, Len(s))

\* s.strip(chars): the slice between the first and the last character that
\* is not in chars
StripChars(s, chars) ==
    LET kept == {i \in 1..Len(s) : ~IsIn(CharAt(s, i), chars)}
    IN  IF kept = {} THEN ""
        ELSE Slice(s, CHOOSE i \in kept : \A j \in kept : i <= j,
                      CHOOSE i \in kept : \A j \in kept : j <= i)
LStrip(s) ==
    LET kept == {i \in 1..Len(s) : ~IsSpace(CharAt(s, i))}
    IN  IF kept = {} THEN ""
        ELSE Slice(s, CHOOSE i \in kept : \A j \in kept : i <= j, Len(s))
RStrip(s) ==
    LET kept == {i \in 1..Len(s) : ~IsSpace(CharAt(s, i))}
    IN  IF kept = {} THEN ""
        ELSE Slice(s, 1, CHOOSE i \in kept : \A j \in kept : j <= i)
\* str.strip()
Strip(s) == RStrip(LStrip(s))

\* s.startswith(k)
StartsWith(s, k) == Len(k) <= Len(s) /\ Slice(s, 1, Len(k)) = k
\* s.endswith(k)
EndsWith(s, k) == Len(k) <= Len(s) /\ Slice(s, Len(s) - Len(k) + 1, Len(s)) = k
\* k occurs in s at position i
MatchAt(s, i, k) == i >= 1 /\ i + Len(k) - 1 <= Len(s) /\ Slice(s, i, i + Len(k) - 1) = k
\* k in s
Contains(s, k) == k = "" \/ \E i \in 1..Len(s) : MatchAt(s, i, k)
\* s.find(k) + 1 from position i on, 0 when absent
FindFrom(s, i, k) ==
    IF \E j \in i..Len(s) : MatchAt(s, j, k)
    THEN CHOOSE j \in i..Len(s) :
            MatchAt(s, j, k) /\ \A h \in i..(j - 1) : ~MatchAt(s, h, k)
    ELSE 0

RECURSIVE WordsIn(_, _, _)
\* the whitespace-separated words of s[lo-1:hi], computed by halving the
\* range at a blank
WordsIn(s, lo, hi) ==
    LET blanks == {i \in lo..hi : IsSpace(CharAt(s, i))}
    IN  IF lo > hi THEN <<>>
        ELSE IF blanks = {} THEN <<Slice(s, lo, hi)>>
        ELSE LET mid == (lo + hi) \div 2
                 Dist(i) == IF i >= mid THEN i - mid ELSE mid - i
                 cut == CHOOSE i \in blanks :
                            \A j \in blanks :
                                Dist(i) < Dist(j) \/ (Dist(i) = Dist(j) /\ i <= j)
             IN  WordsIn(s, lo, cut - 1) \o WordsIn(s, cut + 1, hi)
\* s.split(): the whitespace-separated words of s
SplitWs(s) == WordsIn(s, 1, Len(s))

RECURSIVE SplitOn(_, _)
\* s.split(sep) for a non-empty separator
SplitOn(s, sep) ==
    LET p == FindFrom(s, 1, sep)
    IN  IF p = 0 THEN <<s>>
        ELSE <<Slice(s, 1, p - 1)>> \o SplitOn(Slice(s, p + Len(sep), Len(s)), sep)

RECURSIVE JoinWith(_, _)
\* sep.join(words)
JoinWith(words, sep) ==
    IF words = <<>> THEN ""
    ELSE IF Len(words) = 1 THEN words[1]
    ELSE words[1] \o sep \o JoinWith(Tail(words), sep)

\* s.replace(a, b)
Replace(s, a, b) == JoinWith(SplitOn(s, a), b)

\* any(k in s for k in ks), ks a sequence of strings
ContainsAny(s, ks) == \E n \in 1..Len(ks) : Contains(s, ks[n])
\* any(s.startswith(k) for k in ks)
StartsWithAny(s, ks) == \E n \in 1..Len(ks) : StartsWith(s, ks[n])
\* s in ks, ks a sequence of strings
InList(s, ks) == \E n \in 1..Len(ks) : ks[n] = s

(***************************************************************************)
(* The user messages of the model. What the agent reads off a message      *)
(* (intent, exit phrase, clause request, field values) depends on the text *)
(* alone, so it is computed once per message and looked up afterwards.     *)
(***************************************************************************)
Utterances ==
    {"employment contract",
     "Employer: ABC Corp, Employee: John Doe, Position: Engineer, Salary: 50000, Start Date: January 1 2025",
     "skip",
     "employment contract, employer_name: abc corp, employee_name: john doe, position: clerk, salary: 500, start_date: may 1 2025, work_hours: 8, place_of_work: cebu, employment_type: regular, benefits: sss",
     "salary: tbd",
     "hello",
     "i need a new lease contract",
     "add a non-compete clause",
     "what is the minimum wage?"}

\* the messages the Slot Extractor is applied to on its own
ExtractionTexts ==
    {"Partner Names: Mark Joseph and Jaedan Bahala, Business: Tech Startup, Capital: 500000",
     "partner_names: mark joseph and jaedan bahala",
     "Employer: ABC Corporation, Employee: John Doe"}
\* a request that names no category, and the category names the agent then
\* offers ("Employment", "Partnership", "Lease", "Buy and Sell")
CategoryTexts == {"create a contract", "Employment", "Partnership", "Lease", "Buy and Sell"}

\* every message text the flow or the Slot Extractor sees
Texts == Utterances \cup ExtractionTexts \cup CategoryTexts \cup {""}

(***************************************************************************)
(* Field values: a Python str or a Python list of str                      *)
(***************************************************************************)
Str(s) == [k |-> "str", v |-> s]
List(l) == [k |-> "list", v |-> l]
IsStr(x) == x.k = "str"
IsList(x) == x.k = "list"
\* the empty dict
EmptyDict == [f \in {} |-> Str("")]
\* d.update(e)
Update(d, e) ==
    [f \in DOMAIN d \cup DOMAIN e |-> IF f \in DOMAIN e THEN e[f] ELSE d[f]]
\* the set of the elements of a sequence
Range(q) == {q[i] : i \in DOMAIN q}

(***************************************************************************)
(* Field Schema Resolver                                                   *)
(***************************************************************************)
CategoryNames == <<"EMPLOYMENT", "PARTNERSHIP", "LEASE", "BUY_SELL">>
Categories == Range(CategoryNames)
\* contract_type of a session with no flow (Python None)
None == "None"

\* The details.get('<field>', <default>) reads of each renderer's generate(),
\* in source order, as re.findall(get_pattern, source) returns them.
GeneratorReads(contract_type) ==
    CASE contract_type = "EMPLOYMENT" ->
           << <<"employer_name", "'[EMPLOYER]'">>,
              <<"employee_name", "'[EMPLOYEE]'">>,
              <<"position", "'[POSITION]'">>,
              <<"salary", "'[SALARY]'">>,
              <<"start_date", "datetime.now(">>,
              <<"employment_type", "'Regular'">>,
              <<"work_hours", "'8 hours per day, Monday to Friday'">>,
              <<"benefits", "'As per company policy'">>,
              <<"place_of_work", "'[WORK LOCATION]'">> >>
      [] contract_type = "PARTNERSHIP" ->
           << <<"partner_names", "['[FIRST PARTNER]', '[SECOND PARTNER]']">>,
              <<"business_name", "'[BUSINESS NAME]'">>,
              <<"partnership_type", "'general'">>,
              <<"capital_contribution", "'[CAPITAL AMOUNT]'">>,
              <<"profit_sharing_ratio", "'[RATIO]'">>,
              <<"business_address", "'[BUSINESS ADDRESS]'">>,
              <<"date", "datetime.now(">>,
              <<"principal_office", "address">>,
              <<"business_purpose", "'conducting lawful business activities'">> >>
      [] contract_type = "LEASE" ->
           << <<"lessor_name", "'[LESSOR NAME]'">>,
              <<"lessee_name", "'[LESSEE NAME]'">>,
              <<"property_address", "'[PROPERTY ADDRESS]'">>,
              <<"property_description", "'[PROPERTY DESCRIPTION]'">>,
              <<"rental_amount", "'[RENTAL AMOUNT]'">>,
              <<"lease_period", "'[LEASE PERIOD]'">>,
              <<"payment_terms", "'monthly in advance'">>,
              <<"property_use", "'residential/commercial'">> >>
      [] contract_type = "BUY_SELL" ->
           << <<"seller_name", "'[SELLER]'">>,
              <<"buyer_name", "'[BUYER]'">>,
              <<"item_description", "'[ITEM DESCRIPTION]'">>,
              <<"purchase_price", "'[PRICE]'">>,
              <<"payment_terms", "'Full payment upon delivery'">>,
              <<"delivery_date", "'[DELIVERY DATE]'">>,
              <<"delivery_place", "'[DELIVERY PLACE]'">>,
              <<"delivery_method", "'Personal handover / Courier'">>,
              <<"delivery_cost", "'Shouldered by Buyer'">> >>
      [] OTHER -> <<>>

optional_defaults ==
    <<"as per", "according to", "per company policy", "regular",
      "full payment", "monthly", "quarterly", "as agreed",
      "to be determined", "n/a", "none">>

\* _is_field_required(field_name, default_value)
IsFieldRequired(field_name, default_value) ==
    IF default_value = "" THEN TRUE
    ELSE LET default_clean == StripChars(Strip(default_value), "'\"")
         IN  IF StartsWith(default_clean, "[") /\ EndsWith(default_clean, "]")
             THEN TRUE
             ELSE IF Contains(default_value, "datetime")
                     \/ Contains(default_value, ".strftime")
             THEN TRUE
             ELSE IF ContainsAny(Lower(default_clean), optional_defaults)
             THEN FALSE
             ELSE IF Len(default_clean) > 50 THEN TRUE
             ELSE TRUE

RECURSIVE Dedupe(_)
\* list(dict.fromkeys(q)): first occurrences, in order
Dedupe(q) ==
    IF q = <<>> THEN <<>>
    ELSE LET r == Dedupe(SubSeq(q, 1, Len(q) - 1))
             x == q[Len(q)]
         IN  IF x \in Range(r) THEN r ELSE Append(r, x)

RECURSIVE RequiredOf(_)
RequiredOf(reads) ==
    IF reads = <<>> THEN <<>>
    ELSE LET field_name == reads[1][1]
             default_value == reads[1][2]
         IN  (IF field_name \in {"special_clauses", "applicable_laws"} THEN <<>>
              ELSE IF IsFieldRequired(field_name, default_value)
                   THEN <<field_name>> ELSE <<>>)
             \o RequiredOf(Tail(reads))

\* the static table of the except branch of _get_required_fields
fallback(contract_type) ==
    CASE contract_type = "EMPLOYMENT" ->
           <<"employer_name", "employee_name", "position", "salary",
             "start_date", "employment_type", "work_hours", "benefits">>
      [] contract_type = "PARTNERSHIP" ->
           <<"partner_names", "business_name", "partnership_type",
             "capital_contribution", "profit_sharing_ratio", "business_address">>
      [] contract_type = "LEASE" ->
           <<"lessor_name", "lessee_name", "property_address", "rental_amount",
             "lease_period", "payment_terms", "property_use">>
      [] contract_type = "BUY_SELL" ->
           <<"seller_name", "buyer_name", "item_description", "purchase_price",
             "payment_terms", "delivery_terms", "delivery_date">>
      [] OTHER -> <<>>

\* _get_required_fields(contract_type): an unknown type has no fields; the
\* renderer's reads when its module imports; the static table when the
\* import raises.
get_required_fields(contract_type, importable) ==
    IF contract_type \notin Categories THEN <<>>
    ELSE IF importable THEN Dedupe(RequiredOf(GeneratorReads(contract_type)))
    ELSE fallback(contract_type)

\* the eight resolved schemas, computed once
SchemaTable ==
    [imp \in BOOLEAN |-> [c \in Categories |-> get_required_fields(c, imp)]]

\* the schema of a category in the running process
Schema(contract_type) ==
    IF contract_type \in Categories
    THEN SchemaTable[generators_importable][contract_type]
    ELSE <<>>

(***************************************************************************)
(* Fill-State Classifier                                                   *)
(***************************************************************************)
\* re.match(r'^\[.*\]$', s)
IsBracketWrapped(s) ==
    Len(s) >= 2 /\ StartsWith(s, "[") /\ EndsWith(s, "]")
    /\ ~Contains(Slice(s, 2, Len(s) - 1), "\n")
\* re.match(r'^\.\.\.+$', s)
IsEllipsisOnly(s) == Len(s) >= 3 /\ \A i \in 1..Len(s) : CharAt(s, i) = "."

\* bool(value) for a str or list value
Truthy(x) == IF IsList(x) THEN x.v # <<>> ELSE x.v # ""

\* _is_value_filled(value)
is_value_filled(value) ==
    IF ~Truthy(value) THEN FALSE
    ELSE IF IsList(value)
    THEN Len(value.v) > 0
         /\ \E i \in 1..Len(value.v) : value.v[i] # "" /\ Strip(value.v[i]) # ""
    ELSE LET value_str == Strip(value.v)
             value_lower == Lower(value_str)
         IN  IF value_str = "" THEN FALSE
             ELSE ~(\/ IsBracketWrapped(value_lower)
                    \/ IsEllipsisOnly(value_lower)
                    \/ value_lower = "to be determined"
                    \/ value_lower = "tbd"
                    \/ value_lower \in {"n/a", "na"})

\* the test of _update_state_c2 on one field of details
FieldFilled(details, field) ==
    field \in DOMAIN details /\ Truthy(details[field])
    /\ is_value_filled(details[field])

(***************************************************************************)
(* Intent Classifier                                                       *)
(***************************************************************************)
\* re.search(r'\b<w>\b', s) for a pattern w of word characters and blanks
WordSearch(s, w) ==
    \E i \in 1..Len(s) :
        /\ MatchAt(s, i, w)
        /\ ~IsWordChar(CharAt(s, i - 1))
        /\ ~IsWordChar(CharAt(s, i + Len(w)))

type_patterns(contract_type) ==
    CASE contract_type = "EMPLOYMENT" ->
           <<"employment", "employee", "job", "hire", "work", "worker",
             "labor", "labour">>
      [] contract_type = "PARTNERSHIP" ->
           <<"partnership", "partner", "business partner", "joint venture">>
      [] contract_type = "LEASE" ->
           <<"lease", "rent", "rental", "property", "lessor", "lessee">>
      [] contract_type = "BUY_SELL" ->
           <<"buy", "sell", "purchase", "sale", "buyer", "seller">>

TypeMatches(msg, contract_type) ==
    \E n \in 1..Len(type_patterns(contract_type)) :
        WordSearch(msg, type_patterns(contract_type)[n])

\* _detect_contract_type(message): the first category, in the order of
\* type_patterns, one of whose patterns matches
detect_contract_type(message) ==
    LET msg == Lower(message)
    IN  IF \E n \in 1..Len(CategoryNames) : TypeMatches(msg, CategoryNames[n])
        THEN CategoryNames[CHOOSE n \in 1..Len(CategoryNames) :
                 /\ TypeMatches(msg, CategoryNames[n])
                 /\ \A h \in 1..(n - 1) : ~TypeMatches(msg, CategoryNames[h])]
        ELSE None

contract_keywords ==
    <<"contract", "agreement", "lease", "rent", "employment", "job",
      "partnership", "business", "buy", "sell", "labor", "worker",
      "salary", "wage", "clause", "party", "parties", "term",
      "generate", "create", "analyze", "review", "legal", "law",
      "what", "how", "when", "maximum", "minimum", "ground", "requirement">>

\* _is_in_scope(message)
is_in_scope(message) == ContainsAny(Lower(message), contract_keywords)

greeting_words ==
    <<"hello", "hi", "hey", "good morning", "good afternoon", "good evening">>
analysis_patterns ==
    <<"analyze this contract", "analyze contract", "review this contract",
      "check this contract", "examine this contract", "look at this contract">>
generation_patterns ==
    <<"create", "generate", "make", "need", "want", "draft", "get",
      "prepare", "build", "write">>
contract_words == <<"contract", "agreement", "lease", "employment", "partnership">>
question_words ==
    <<"what", "how", "when", "where", "why", "can", "is", "are", "maximum",
      "minimum", "law", "ground", "requirement", "tell me">>

IntentResult(intent, contract_type) ==
    [intent |-> intent, contract_type |-> contract_type]
\* the {} passed as intent_result by the continue-collection call sites
NoIntent == IntentResult("", None)

\* _detect_intent_c1(message): intent and detected category (the confidence
\* score is not read by any caller)
detect_intent_c1(message) ==
    LET msg == Lower(message)
        contract_type == detect_contract_type(message)
        has_generation_word == ContainsAny(msg, generation_patterns)
        has_contract_word == ContainsAny(msg, contract_words)
    IN  IF StartsWithAny(Strip(msg), greeting_words) /\ Len(SplitWs(msg)) <= 2
        THEN IntentResult("GREETING", None)
        ELSE IF ContainsAny(msg, analysis_patterns)
        THEN IntentResult("ANALYZE_CONTRACT", None)
        ELSE IF has_generation_word /\ (has_contract_word \/ contract_type # None)
        THEN IntentResult("CREATE_CONTRACT", contract_type)
        ELSE IF contract_type # None /\ has_contract_word
        THEN IntentResult("CREATE_CONTRACT", contract_type)
        ELSE IF (StartsWithAny(Strip(msg), question_words) \/ Contains(msg, "?"))
                /\ is_in_scope(message)
        THEN IntentResult("QUESTION", None)
        ELSE IF ~is_in_scope(message)
        THEN IntentResult("OUT_OF_SCOPE", None)
        ELSE IntentResult("PROVIDING_INFO", None)

\* detect_intent_c1 on the messages of the model
intent_of == [m \in Texts |-> detect_intent_c1(m)]
DetectIntent(message) == intent_of[message]

(***************************************************************************)
(* Special-Clause Sub-flow                                                 *)
(***************************************************************************)
clause_keywords ==
    <<"non-disclosure", "nda", "confidentiality", "non-compete",
      "non-solicitation", "intellectual property", "ip rights",
      "termination clause", "penalty clause", "arbitration",
      "force majeure", "warranty", "indemnity", "liability">>
request_words == <<"add", "include", "want", "need", "put in">>

\* _is_clause_request(message)
is_clause_request(message) ==
    LET msg_lower == Lower(message)
        has_clause_keyword == ContainsAny(msg_lower, clause_keywords)
        has_request_word == ContainsAny(msg_lower, request_words)
    IN  has_clause_keyword /\ (has_request_word \/ Len(SplitWs(msg_lower)) <= 6)

skip_phrases ==
    <<"none", "skip", "no", "nothing", "i don't have any", "i don't have",
      "no thanks">>
done_phrases ==
    <<"done", "finish", "finished", "complete", "that's all", "that's it">>
\* The exit test with the first list left out: only the phrases of the
\* second test end the collection.
IsDonePhraseOnly(message) == InList(Strip(Lower(message)), done_phrases)

\* the two exit tests of _handle_generation_flow on message.lower().strip()
IsExitPhrase(message) ==
    LET msg_lower == Strip(Lower(message))
    IN  InList(msg_lower, skip_phrases) \/ InList(msg_lower, done_phrases)

\* is_clause_request and IsExitPhrase on the messages of the model
clause_request_of == [m \in Utterances |-> is_clause_request(m)]
IsClauseRequest(message) ==
    IF message \in Utterances THEN clause_request_of[message]
    ELSE is_clause_request(message)
exit_phrase_of == [m \in Utterances |-> IsExitPhrase(m)]
IsLeaving(message) ==
    IF message \in Utterances THEN exit_phrase_of[message] ELSE IsExitPhrase(message)

(***************************************************************************)
(* Slot Extractor                                                          *)
(***************************************************************************)
\* the position after a greedy \s* that starts at position i
SkipSpaces(s, i) ==
    IF i > Len(s) THEN i
    ELSE CHOOSE j \in i..(Len(s) + 1) :
            /\ ~IsSpace(CharAt(s, j))
            /\ \A h \in i..(j - 1) : IsSpace(CharAt(s, h))

NoMatch == [ok |-> FALSE, group |-> "", last |-> 0]

\* Whether one of the alternatives closing the value group matches at
\* position i: "," or "\n" or the end of the text, "." when dotEnds,
\* "partner" (any case) when wordEnds.
EndsValueAt(s, i, dotEnds, wordEnds) ==
    \/ i > Len(s)
    \/ CharAt(s, i) \in {",", "\n"}
    \/ dotEnds /\ CharAt(s, i) = "."
    \/ wordEnds /\ Lower(Slice(s, i, i + 6)) = "partner"

\* The tail  \s*<sep>\s*([^,\n]+?)(?:,|...|\n|$)  of the three extraction
\* patterns, matched from position p: blanks, one separator character, blanks
\* (given back one by one when no value character follows), then the shortest
\* non-empty run without "," and "\n" that is followed by a closing
\* alternative. last is the position of the last character consumed.
MatchValue(s, p, seps, dotEnds, wordEnds) ==
    LET q == SkipSpaces(s, p)
        r == SkipSpaces(s, q + 1)
        starts == {g \in (q + 1)..r : g <= Len(s) /\ CharAt(s, g) \notin {",", "\n"}}
    IN  IF ~IsIn(CharAt(s, q), seps) \/ starts = {} THEN NoMatch
        ELSE LET g == CHOOSE x \in starts : \A y \in starts : y <= x
                 e == CHOOSE x \in g..Len(s) :
                        /\ EndsValueAt(s, x + 1, dotEnds, wordEnds)
                        /\ \A y \in g..(x - 1) : ~EndsValueAt(s, y + 1, dotEnds, wordEnds)
                 closing == IF e + 1 > Len(s) THEN 0
                            ELSE IF CharAt(s, e + 1) \in {",", "\n", "."} THEN 1
                            ELSE 7
             IN  [ok |-> TRUE, group |-> Slice(s, g, e), last |-> e + closing]

\* re.search(rf"{re.escape(variant)}\s*[:\-]\s*([^,\n]+?)(?:,|\.|\n|$)", s):
\* the match at the leftmost position where the whole pattern matches
SearchField(s, variant) ==
    LET Leftmost(hits) ==
            IF hits = {} THEN NoMatch
            ELSE MatchValue(s, (CHOOSE i \in hits : \A j \in hits : i <= j) + Len(variant),
                            ":-", TRUE, FALSE)
    IN  Leftmost({i \in 1..Len(s) :
                    MatchAt(s, i, variant)
                    /\ MatchValue(s, i + Len(variant), ":-", TRUE, FALSE).ok})

\* re.sub(r'^(php|usd)\s*', '', value, flags=re.IGNORECASE)
DropCurrencyPrefix(value) ==
    IF Lower(Slice(value, 1, 3)) \in {"php", "usd"}
    THEN Slice(value, SkipSpaces(value, 4), Len(value))
    ELSE value

\* ' '.join(word.capitalize() for word in value.split())
CapitalizeWords(value) == LET words == SplitWs(value)
    IN  JoinWith([i \in DOMAIN words |-> Capitalize(words[i])], " ")

\* The clean-up of one matched value in _regex_extraction. The bullet that
\* value.strip(bullet) removes is not a character of the modelled alphabet.
CleanValue(field, group) ==
    LET value == DropCurrencyPrefix(Strip(Strip(group)))
    IN  IF Contains(field, "name") THEN CapitalizeWords(value) ELSE value

\* the first of the three spellings of the field name that matches
FieldMatch(msg_lower, field) ==
    LET field_variants == <<field, Replace(field, "_", " "), Replace(field, "_", "-")>>
        FirstOf(tried) ==
            IF \E n \in 1..3 : tried[n].ok
            THEN tried[CHOOSE n \in 1..3 : tried[n].ok /\ \A h \in 1..(n - 1) : ~tried[h].ok]
            ELSE NoMatch
    IN  FirstOf([n \in 1..3 |-> SearchField(msg_lower, field_variants[n])])

\* _regex_extraction(message, required_fields)
regex_extraction(message, required_fields) ==
    LET Extracted(found) ==
            LET hit == {n \in 1..Len(required_fields) : found[n].ok}
            IN  [field \in {required_fields[n] : n \in hit} |->
                    LET n == CHOOSE h \in hit : required_fields[h] = field
                    IN  Str(CleanValue(field, found[n].group))]
        Search(msg_lower) ==
            Extracted([n \in 1..Len(required_fields) |->
                          FieldMatch(msg_lower, required_fields[n])])
    IN  Search(Lower(message))

\* regex_extraction on the messages of the model, for every schema
Schemas == {SchemaTable[imp][c] : imp \in BOOLEAN, c \in Categories} \cup {<<>>}
regex_of == [m \in Texts |-> [fields \in Schemas |-> regex_extraction(m, fields)]]
RegexExtraction(message, required_fields) == regex_of[message][required_fields]

\* re.search(r'partner\s*names?\s*:\s*([^,\n]+?)(?:,|\n|$)', s) at position i
PartnerNamesAt(s, i) ==
    LET a == SkipSpaces(s, i + 7)
        b == IF MatchAt(s, a + 4, "s") THEN a + 5 ELSE a + 4
    IN  IF MatchAt(s, i, "partner") /\ MatchAt(s, a, "name")
        THEN MatchValue(s, b, ":", FALSE, FALSE)
        ELSE NoMatch

\* r'partner\s*[a-z]?\s*:\s*([^,\n]+?)(?:,|partner|\n|$)' with re.IGNORECASE,
\* matched at position i
PartnerAt(s, i) ==
    LET a == SkipSpaces(s, i + 7)
        b == IF IsAlpha(CharAt(s, a)) THEN a + 1 ELSE a
    IN  IF Lower(Slice(s, i, i + 6)) = "partner" /\ i + 6 <= Len(s)
        THEN MatchValue(s, b, ":", FALSE, TRUE)
        ELSE NoMatch

RECURSIVE PartnerFindAll(_, _)
\* re.findall of the pattern above from position i: the groups of the
\* successive non-overlapping matches
PartnerFindAll(s, i) ==
    LET Rest(m) == <<m.group>> \o PartnerFindAll(s, m.last + 1)
        From(hits) ==
            IF hits = {} THEN <<>>
            ELSE Rest(PartnerAt(s, CHOOSE j \in hits : \A h \in hits : j <= h))
    IN  From({j \in i..Len(s) : PartnerAt(s, j).ok})

TitleStripped(n) == Title(Strip(n))

\* _extract_partner_names(message)
extract_partner_names(message) ==
    LET Titled(names) == [i \in DOMAIN names |-> TitleStripped(names[i])]
        Split(names_str) ==
            IF Contains(names_str, " and ") THEN Titled(SplitOn(names_str, " and "))
            ELSE IF Contains(names_str, ",") THEN Titled(SplitOn(names_str, ","))
            ELSE <<TitleStripped(names_str)>>
        Listed(msg_lower, hits) ==
            IF hits = {} THEN <<>>
            ELSE Split(Strip(PartnerNamesAt(msg_lower,
                         CHOOSE i \in hits : \A j \in hits : i <= j).group))
        Search(msg_lower) ==
            Listed(msg_lower, {i \in 1..Len(msg_lower) : PartnerNamesAt(msg_lower, i).ok})
        Choose(partners, matches) ==
            IF matches # <<>> /\ partners = <<>> THEN Titled(matches) ELSE partners
    IN  Choose(Search(Lower(message)), PartnerFindAll(message, 1))

\* extract_partner_names on the messages of the model
partner_names_of == [m \in Texts |-> extract_partner_names(m)]
ExtractPartnerNames(message) == partner_names_of[message]

\* What the completion service contributes to one extraction: either nothing
\* (the call returned None or its reply held no JSON object), or the parsed
\* JSON object of its reply.
NoReply == [ok |-> FALSE, data |-> EmptyDict]
Reply(data) == [ok |-> TRUE, data |-> data]

\* the list coercion of data['partner_names'] in _llm_extraction
CoercePartners(x) ==
    IF ~IsStr(x) THEN x
    ELSE LET Stripped(names) == List([i \in DOMAIN names |-> Strip(names[i])])
         IN  IF Contains(x.v, " and ") THEN Stripped(SplitOn(x.v, " and "))
             ELSE IF Contains(x.v, ",") THEN Stripped(SplitOn(x.v, ","))
             ELSE List(<<Strip(x.v)>>)

\* v and v not in ['...', 'N/A', 'null', 'None', '']
KeptByLLMFilter(x) ==
    Truthy(x) /\ (IsList(x) \/ x.v \notin {"...", "N/A", "null", "None", ""})

\* _llm_extraction(message, contract_type, required_fields), given the reply
llm_extraction(contract_type, reply) ==
    IF ~reply.ok THEN EmptyDict
    ELSE LET data == [key \in DOMAIN reply.data |->
                        IF contract_type = "PARTNERSHIP" /\ key = "partner_names"
                        THEN CoercePartners(reply.data[key])
                        ELSE reply.data[key]]
         IN  [key \in {x \in DOMAIN data : KeptByLLMFilter(data[x])} |-> data[key]]

DigitAt(text, i) == IF IsDigit(CharAt(text, i)) THEN CharAt(text, i) ELSE ""
\* re.sub(r'[^\d]', '', text)
DigitsOf(text) == ConcatRange([i \in 1..Len(text) |-> DigitAt(text, i)], 1, Len(text))

\* assign value to the first field of the list that is not yet extracted
AssignFirstFree(extracted, fields, value) ==
    IF \E n \in 1..Len(fields) : fields[n] \notin DOMAIN extracted
    THEN LET n == CHOOSE m \in 1..Len(fields) :
                    /\ fields[m] \notin DOMAIN extracted
                    /\ \A h \in 1..(m - 1) : fields[h] \in DOMAIN extracted
         IN  Update(extracted, [f \in {fields[n]} |-> Str(value)])
    ELSE extracted

IsNameField(f) == Contains(f, "name")
IsMoneyField(f) ==
    Contains(f, "salary") \/ Contains(f, "rent") \/ Contains(f, "price")
    \/ Contains(f, "amount")
IsDateField(f) == Contains(f, "date")

RECURSIVE SpacyAssign(_, _, _)
SpacyAssign(ents, required_fields, extracted) ==
    IF ents = <<>> THEN extracted
    ELSE LET ent == ents[1]
             name_fields == SelectSeq(required_fields, IsNameField)
             money_fields == SelectSeq(required_fields, IsMoneyField)
             date_fields == SelectSeq(required_fields, IsDateField)
             next == IF ent.label = "PERSON" /\ name_fields # <<>>
                     THEN AssignFirstFree(extracted, name_fields, ent.text)
                     ELSE IF ent.label = "MONEY" /\ money_fields # <<>>
                     THEN AssignFirstFree(extracted, money_fields, DigitsOf(ent.text))
                     ELSE IF ent.label = "DATE" /\ date_fields # <<>>
                     THEN AssignFirstFree(extracted, date_fields, ent.text)
                     ELSE extracted
         IN  SpacyAssign(Tail(ents), required_fields, next)

\* _spacy_extraction(message, required_fields), given doc.ents
spacy_extraction(ents, required_fields) ==
    SpacyAssign(ents, required_fields, EmptyDict)

\* the merge with the test 'key not in extracted' left out
OverwriteWith(extracted, later) == Update(extracted, later)

\* for key, value in later.items(): if key not in extracted: extracted[key] = value
FillGaps(extracted, later) == Update(later, extracted)

\* _extract_entities_c3(message, contract_type), given what the completion
\* service replies and what the tagger finds in the message
extract_entities_c3(message, contract_type, reply, ents) ==
    LET Named(partners) ==
            IF partners # <<>>
            THEN [f \in {"partner_names"} |-> List(partners)] ELSE EmptyDict
        required_fields == Schema(contract_type)
    IN  FillGaps(FillGaps(FillGaps(
            IF contract_type = "PARTNERSHIP" /\ "partner_names" \in Range(required_fields)
            THEN Named(ExtractPartnerNames(message)) ELSE EmptyDict,
            IF llm_available THEN llm_extraction(contract_type, reply) ELSE EmptyDict),
            RegexExtraction(message, required_fields)),
            IF spacy_available THEN spacy_extraction(ents, required_fields) ELSE EmptyDict)

(***************************************************************************)
(* Dialogue State Tracker: state update                                    *)
(***************************************************************************)
\* _update_state_c2(session, new_data) for a session with a contract type:
\* the merged details and the filled / missing partition of the schema
update_state_c2(session, new_data) ==
    LET required == Schema(session.contract_type)
        details == Update(session.details, new_data)
        IsFilled(field) == FieldFilled(details, field)
        IsMissing(field) == ~FieldFilled(details, field)
    IN  [contract_type |-> session.contract_type,
         filled |-> SelectSeq(required, IsFilled),
         missing |-> SelectSeq(required, IsMissing),
         details |-> details]

(***************************************************************************)
(* Rule Validator                                                          *)
(***************************************************************************)
\* One entry of required_clauses: clause.get('name'), clause.get('mandatory',
\* False), 'default' in clause, clause['default']
Clause(name, mandatory, has_default, default) ==
    [name |-> name, mandatory |-> mandatory, has_default |-> has_default,
     default |-> default]
\* One item of constraints: field, 'min' in constraint, constraint['min'],
\* 'max' in constraint, constraint['max']
Constraint(field, has_min, min, has_max, max) ==
    [field |-> field, has_min |-> has_min, min |-> min, has_max |-> has_max,
     max |-> max]

AllDigits(t) == \A i \in 1..Len(t) : IsDigit(CharAt(t, i))
DigitValue(c) == (CHOOSE k \in 1..10 : SubSeq(DigitChars, k, k) = c) - 1
RECURSIVE DigitsToNat(_)
DigitsToNat(t) ==
    IF t = "" THEN 0
    ELSE 10 * DigitsToNat(Slice(t, 1, Len(t) - 1)) + DigitValue(CharAt(t, Len(t)))

\* float(text) for plain decimal text: blanks around, an optional sign,
\* digits with an optional point. ok is FALSE where float raises ValueError.
\* The number is (neg ? -1 : 1) * (int + fraction), frac telling whether the
\* fraction is non-zero.
ParseFloat(text) ==
    LET Number(neg, ip, fp) ==
            [ok |-> (ip # "" \/ fp # "") /\ AllDigits(ip) /\ AllDigits(fp),
             neg |-> neg,
             int |-> IF AllDigits(ip) THEN DigitsToNat(ip) ELSE 0,
             frac |-> \E i \in 1..Len(fp) :
                        CharAt(fp, i) \in {"1", "2", "3", "4", "5", "6", "7", "8", "9"}]
        Split(neg, body, dot) ==
            Number(neg, IF dot = 0 THEN body ELSE Slice(body, 1, dot - 1),
                   IF dot = 0 THEN "" ELSE Slice(body, dot + 1, Len(body)))
        Unsigned(neg, body) == Split(neg, body, FindFrom(body, 1, "."))
        Signed(t) ==
            Unsigned(CharAt(t, 1) = "-",
                     IF CharAt(t, 1) \in {"+", "-"} THEN Slice(t, 2, Len(t)) ELSE t)
    IN  Signed(Strip(text))

\* value_num <= bound
NumAtMost(n, bound) ==
    IF n.neg THEN n.int >= -bound
    ELSE n.int < bound \/ (n.int = bound /\ ~n.frac)

\* value_num < bound and value_num > bound for an integer bound
NumBelow(n, bound) ==
    IF n.neg THEN n.int > -bound \/ (n.int = -bound /\ n.frac)
    ELSE n.int < bound
NumAbove(n, bound) ==
    IF n.neg THEN n.int < -bound
    ELSE n.int > bound \/ (n.int = bound /\ n.frac)

\* field.replace('_', ' ').title()
NiceName(field) == Title(Replace(field, "_", " "))
\* NiceName on the field names of the schemas
SchemaFields == UNION {Range(fields) : fields \in Schemas}
nice_name_of == [field \in SchemaFields |-> NiceName(field)]
NiceNameOf(field) ==
    IF field \in SchemaFields THEN nice_name_of[field] ELSE NiceName(field)

NewValidation ==
    [valid |-> TRUE, warnings |-> <<>>, errors |-> <<>>, applied_defaults |-> <<>>]

RECURSIVE ValidateClauses(_, _, _)
\* the loop over laws['required_clauses']; acc holds validation and details
ValidateClauses(clauses, validation, details) ==
    IF clauses = <<>> THEN [validation |-> validation, details |-> details]
    ELSE LET clause == clauses[1]
             clause_name == clause.name
             absent == clause_name \notin DOMAIN details \/ ~Truthy(details[clause_name])
             Visit(nice_name) ==
                IF absent /\ clause.has_default
                THEN [validation |->
                        [validation EXCEPT !.applied_defaults =
                            Append(@, nice_name \o ": " \o clause.default)],
                      details |->
                        Update(details, [f \in {clause_name} |-> Str(clause.default)])]
                ELSE IF absent /\ clause.mandatory
                THEN [validation |->
                        [validation EXCEPT
                            !.errors = Append(@, "Missing required: " \o nice_name),
                            !.valid = FALSE],
                      details |-> details]
                ELSE [validation |-> validation, details |-> details]
             Rest(acc) == ValidateClauses(Tail(clauses), acc.validation, acc.details)
         IN  Rest(Visit(NiceNameOf(clause_name)))

RECURSIVE ValidateConstraints(_, _, _)
\* the loop over laws['constraints'].items()
ValidateConstraints(constraints, validation, details) ==
    IF constraints = <<>> THEN validation
    ELSE LET c == constraints[1]
             present == c.field \in DOMAIN details /\ Truthy(details[c.field])
             value == details[c.field]
             Maximum(above, v1, nice_name) ==
                IF above
                THEN [v1 EXCEPT !.warnings = Append(@, nice_name
                                \o ": Above maximum of " \o ToString(c.max))]
                ELSE v1
             Minimum(below, nice_name) ==
                IF below
                THEN [validation EXCEPT
                        !.errors = Append(@, nice_name
                                \o ": Below minimum of " \o ToString(c.min)),
                        !.valid = FALSE]
                ELSE validation
             Compare(checked, n, nice_name) ==
                Maximum(checked /\ c.has_max /\ NumAbove(n, c.max),
                        Minimum(checked /\ c.has_min /\ NumBelow(n, c.min), nice_name),
                        nice_name)
             Checked(n) ==
                Compare(present /\ (c.has_min \/ c.has_max) /\ n.ok, n, NiceNameOf(c.field))
         IN  ValidateConstraints(Tail(constraints),
                \* a list value makes float() raise TypeError, which is swallowed
                Checked(IF present /\ IsStr(value) THEN ParseFloat(Replace(value.v, ",", ""))
                        ELSE [ok |-> FALSE, neg |-> FALSE, int |-> 0, frac |-> FALSE]),
                details)

\* _validate_against_law_c4(contract_type, details): the validation outcome
\* and details as the in-place defaults leave it
validate_against_law_c4(contract_type, details) ==
    LET law_key == Lower(contract_type)
    IN  IF law_key \notin DOMAIN ph_laws
        THEN [validation |-> [NewValidation EXCEPT !.warnings =
                  <<"No Philippine law file loaded for " \o contract_type>>],
              details |-> details]
        ELSE LET laws == ph_laws[law_key]
                 Constrained(r) ==
                    [validation |-> ValidateConstraints(laws.constraints, r.validation, r.details),
                     details |-> r.details]
             IN  Constrained(ValidateClauses(laws.required_clauses, NewValidation, details))

(***************************************************************************)
(* Input formatting (_format_name, _format_money)                          *)
(***************************************************************************)
name_particles ==
    <<"de", "del", "dela", "delos", "las", "los", "san", "jr", "sr", "ii", "iii", "iv">>

\* str.upper()
Upper(s) == ConcatRange([i \in 1..Len(s) |-> UpperChar(CharAt(s, i))], 1, Len(s))

\* one pass of the loop over the words of a name
FormatWord(word) ==
    IF InList(Lower(word), name_particles)
    THEN (IF Lower(word) # "jr" /\ Lower(word) # "sr" THEN Lower(word)
          ELSE Upper(word) \o ".")
    ELSE Capitalize(word)

\* _format_name(name) for a str
format_name(name) ==
    LET Formatted(words) == JoinWith([i \in 1..Len(words) |-> FormatWord(words[i])], " ")
    IN  Formatted(SplitWs(name))

\* re.sub(r'[^\d,.]', '', value)
KeepMoneyChars(value) ==
    ConcatRange([i \in 1..Len(value) |->
                    IF IsDigit(CharAt(value, i)) \/ CharAt(value, i) \in {",", "."}
                    THEN CharAt(value, i) ELSE ""], 1, Len(value))

RECURSIVE RStripOf(_, _)
\* s.rstrip(c) for one character c
RStripOf(s, c) ==
    IF s # "" /\ CharAt(s, Len(s)) = c THEN RStripOf(Slice(s, 1, Len(s) - 1), c) ELSE s

RECURSIVE DropLeadingZeros(_)
DropLeadingZeros(digits) ==
    IF Len(digits) > 1 /\ CharAt(digits, 1) = "0"
    THEN DropLeadingZeros(Slice(digits, 2, Len(digits)))
    ELSE digits

RECURSIVE GroupThousands(_)
\* the ',' option of the format specification
GroupThousands(digits) ==
    IF Len(digits) <= 3 THEN digits
    ELSE GroupThousands(Slice(digits, 1, Len(digits) - 3)) \o ","
            \o Slice(digits, Len(digits) - 2, Len(digits))

\* the precision of the format specification ",.2f"
FractionDigits == 2

\* f"{amount:,.2f}" for the amount float(ip + '.' + fp), where fp has at most
\* FractionDigits digits, so that the format pads and never rounds
FormatFixed(ip, fp) ==
    GroupThousands(DropLeadingZeros(IF ip = "" THEN "0" ELSE ip)) \o "."
        \o Slice(fp \o "00", 1, FractionDigits)

\* float(clean) for text of digits and points: the digits before and after
\* the point; ok is FALSE where float raises ValueError
SplitAmount(clean) ==
    LET Parts(dot) ==
            [ip |-> IF dot = 0 THEN clean ELSE Slice(clean, 1, dot - 1),
             fp |-> IF dot = 0 THEN "" ELSE Slice(clean, dot + 1, Len(clean))]
        Parsed(p) ==
            [ok |-> (p.ip # "" \/ p.fp # "") /\ AllDigits(p.ip) /\ AllDigits(p.fp),
             ip |-> p.ip, fp |-> p.fp]
    IN  Parsed(Parts(FindFrom(clean, 1, ".")))

\* What _format_money would return if it kept the zeros of ".2f".
format_money_keeping_zeros(value) ==
    LET Formatted(n) == IF n.ok THEN FormatFixed(n.ip, n.fp) ELSE value
    IN  Formatted(SplitAmount(Replace(KeepMoneyChars(value), ",", "")))

\* _format_money(value) for a str
format_money(value) ==
    LET Formatted(n) ==
            IF n.ok THEN RStripOf(RStripOf(FormatFixed(n.ip, n.fp), "0"), ".")
            ELSE value
    IN  Formatted(SplitAmount(Replace(KeepMoneyChars(value), ",", "")))

(***************************************************************************)
(* Sessions, contract records and returned dicts                           *)
(***************************************************************************)
\* the dict _get_or_create_session stores for a new identifier
NewSession(session_id) ==
    [id |-> session_id,
     messages |-> <<>>,
     awaiting_details |-> FALSE,
     awaiting_special_clauses |-> FALSE,
     asked_special_clauses |-> FALSE,
     contract_type |-> None,
     details |-> EmptyDict,
     special_clauses |-> <<>>,
     filled |-> <<>>,
     missing |-> <<>>]

\* A store that gets a new session for the identifier on every call
create_session_anew(store, session_id) ==
    [i \in DOMAIN store \cup {session_id} |->
        IF i = session_id THEN NewSession(session_id) ELSE store[i]]

\* _get_or_create_session(session_id): the session store afterwards
get_or_create_session(store, session_id) ==
    IF session_id \notin DOMAIN store
    THEN [i \in DOMAIN store \cup {session_id} |->
            IF i = session_id THEN NewSession(session_id) ELSE store[i]]
    ELSE store

Message(role, content) == [role |-> role, content |-> content]

\* A response text: the template of the f-string that builds it and the list
\* it interpolates.
Response(template, items) == [template |-> template, items |-> items]

\* A returned dict: keys is the set of its keys; a field whose key is absent
\* holds a filler value.
Return(keys, response, intent) ==
    [keys |-> keys, response |-> response, intent |-> intent,
     success |-> FALSE, contract_id |-> "", contract_type |-> None,
     validation |-> NewValidation, error |-> ""]

\* what a handler leaves behind: the session, the contract store, the dict
Outcome(session, store, ret) == [session |-> session, contracts |-> store, ret |-> ret]

\* the fixed texts the agent appends to the log as assistant messages
out_of_scope_response == "I'm KontrataPH, your contract assistant. I can help with: ..."
greeting_response == "Hello! I'm KontrataPH, your Philippine contract assistant. I can help you: ..."

(***************************************************************************)
(* Finalization                                                            *)
(***************************************************************************)
\* The reset with the special clauses left in the session
ResetSessionKeepingClauses(session) ==
    [session EXCEPT !.awaiting_details = FALSE,
                    !.awaiting_special_clauses = FALSE,
                    !.asked_special_clauses = FALSE,
                    !.contract_type = None,
                    !.details = EmptyDict,
                    !.filled = <<>>,
                    !.missing = <<>>]

\* The reset of the session after a contract is saved
ResetSession(session) ==
    [session EXCEPT !.awaiting_details = FALSE,
                    !.awaiting_special_clauses = FALSE,
                    !.asked_special_clauses = FALSE,
                    !.contract_type = None,
                    !.details = EmptyDict,
                    !.filled = <<>>,
                    !.missing = <<>>,
                    !.special_clauses = <<>>]

\* A generation that takes every category as one that has a renderer
generate_contract_c5c6_any_type(contract_type, details, validation, session, special_clauses, store, contract_id) ==
    Outcome(ResetSession(session),
            [i \in DOMAIN store \cup {contract_id} |->
                IF i = contract_id
                THEN [id |-> contract_id,
                      type |-> contract_type,
                      original_details |-> details,
                      special_clauses |-> special_clauses,
                      validation |-> validation]
                ELSE store[i]],
            [Return({"response", "intent", "contract_id", "contract_type",
                     "file_path", "success", "validation"},
                    Response("contract has been generated", <<>>), "CREATE_CONTRACT")
                EXCEPT !.contract_id = contract_id,
                       !.contract_type = contract_type,
                       !.success = TRUE,
                       !.validation = validation])

\* _generate_contract_c5c6(contract_type, details, validation, session,
\* special_clauses) with the identifier uuid4 yields. The rendered text, the
\* normalized copy of details, the timestamp and the exported file are not
\* part of the modelled record.
generate_contract_c5c6(contract_type, details, validation, session, special_clauses, store, contract_id) ==
    IF contract_type \notin Categories
    THEN Outcome(session, store,
            [Return({"response", "success"},
                    Response("Unknown contract type", <<contract_type>>), "")
                EXCEPT !.success = FALSE])
    ELSE IF ~generators_importable
    \* importlib.import_module raises; the except branch answers
    THEN Outcome(session, store,
            [Return({"response", "success"}, Response("Error", <<>>), "")
                EXCEPT !.success = FALSE])
    ELSE LET record == [id |-> contract_id,
                        type |-> contract_type,
                        original_details |-> details,
                        special_clauses |-> special_clauses,
                        validation |-> validation]
             saved == [i \in DOMAIN store \cup {contract_id} |->
                         IF i = contract_id THEN record ELSE store[i]]
             reset == ResetSession(session)
         IN  Outcome(reset, saved,
                [Return({"response", "intent", "contract_id", "contract_type",
                         "file_path", "success", "validation"},
                        Response("contract has been generated",
                                 validation.applied_defaults \o validation.warnings),
                        "CREATE_CONTRACT")
                    EXCEPT !.contract_id = contract_id,
                           !.contract_type = contract_type,
                           !.success = TRUE,
                           !.validation = validation])

(***************************************************************************)
(* Dialogue State Tracker: the generation flow                             *)
(***************************************************************************)
\* What the completion service yields for a clause request: nothing (None or
\* an empty text), or a text, given here as _clean_generated_clause and
\* strip leave it.
NoText == [ok |-> FALSE, text |-> ""]
Text(t) == [ok |-> TRUE, text |-> t]

\* _generate_special_clause(user_request, contract_type)
generate_special_clause(user_request, generated) ==
    IF ~llm_available THEN user_request
    ELSE IF generated.ok THEN generated.text
    ELSE user_request

restart_words == <<"new", "another", "different">>
\* any(word in message.lower() for word in ['new', 'another', 'different'])
HasRestartWord(message) == ContainsAny(Lower(message), restart_words)
restart_word_of == [m \in Utterances |-> HasRestartWord(m)]
AsksRestart(message) ==
    IF message \in Utterances THEN restart_word_of[message] ELSE HasRestartWord(message)

\* A reply without text while required fields are missing
CollectDetailsSilently(session, store, state, contract_type) ==
    Outcome([session EXCEPT !.awaiting_details = TRUE], store,
        [Return({"intent", "requires_action", "contract_type", "state"},
                Response("", <<>>), "CREATE_CONTRACT")
            EXCEPT !.contract_type = contract_type])

\* The reply while required fields are missing
CollectDetails(session, store, state, contract_type) ==
    Outcome([session EXCEPT !.awaiting_details = TRUE], store,
        [Return({"response", "intent", "requires_action", "contract_type", "state"},
                Response("I still need", [i \in DOMAIN state.missing |-> NiceNameOf(state.missing[i])]),
                "CREATE_CONTRACT")
            EXCEPT !.contract_type = contract_type])

\* The invitation to add special clauses, emitted once per flow
InviteSpecialClauses(session, store, contract_type) ==
    Outcome([session EXCEPT !.asked_special_clauses = TRUE,
                            !.awaiting_special_clauses = TRUE], store,
        [Return({"response", "intent", "awaiting_special_clauses", "contract_type"},
                Response("Would you like to add any special clauses?", <<>>),
                "CREATE_CONTRACT")
            EXCEPT !.contract_type = contract_type])

\* A turn that is no exit phrase while special clauses are awaited: the
\* clause is generated for a clause request and is the message otherwise
AddSpecialClause(message, session, store, generated, contract_type) ==
    LET Added(requested, clause) ==
            Outcome([session EXCEPT !.special_clauses = Append(@, clause)], store,
                [Return({"response", "intent", "awaiting_special_clauses", "contract_type"},
                        Response(IF requested
                                 THEN "Generated and added special clause"
                                 ELSE "Added custom clause", <<clause>>),
                        "CREATE_CONTRACT")
                    EXCEPT !.contract_type = contract_type])
        Composed(requested) ==
            Added(requested, IF requested
                             THEN generate_special_clause(message, generated)
                             ELSE message)
    IN  Composed(IsClauseRequest(message))

\* The reply to a validation with blocking errors, with the session reset
\* as it is after a contract is saved
ValidationFailedAndReset(session, store, validation, contract_type) ==
    Outcome(ResetSession(session), store,
        [Return({"response", "intent", "validation", "contract_type"},
                Response("Validation errors", validation.errors),
                "CREATE_CONTRACT")
            EXCEPT !.validation = validation,
                   !.contract_type = contract_type])

\* The reply to a validation with blocking errors
ValidationFailed(session, store, validation, contract_type) ==
    Outcome(session, store,
        [Return({"response", "intent", "validation", "contract_type"},
                Response("Validation errors", validation.errors),
                "CREATE_CONTRACT")
            EXCEPT !.validation = validation,
                   !.contract_type = contract_type])

\* The end of the flow: both waiting flags are cleared, the details are
\* validated, and the contract is generated when no error blocks it
ValidateAndGenerate(session, store, contract_type, contract_id) ==
    LET closed == [session EXCEPT !.awaiting_details = FALSE,
                                  !.awaiting_special_clauses = FALSE]
        Generate(validated, validation) ==
            IF ~validation.valid
            THEN ValidationFailed(validated, store, validation, contract_type)
            ELSE generate_contract_c5c6(contract_type, validated.details, validation,
                    validated, validated.special_clauses, store, contract_id)
        Validated(checked) ==
            Generate([closed EXCEPT !.details = checked.details], checked.validation)
    IN  Validated(validate_against_law_c4(contract_type, closed.details))

\* The flow without the invitation step: once no field is missing the
\* details are validated at once.
ContinueFlowWithoutInvitation(message, session0, store, reply, ents, generated, contract_id) ==
    LET contract_type == session0.contract_type
        Step(state, session) ==
            IF state.missing # <<>>
            THEN CollectDetails(session, store, state, contract_type)
            ELSE IF session.awaiting_special_clauses /\ ~IsLeaving(message)
            THEN AddSpecialClause(message, session, store, generated, contract_type)
            ELSE ValidateAndGenerate(session, store, contract_type, contract_id)
        Updated(state) ==
            Step(state, [session0 EXCEPT !.details = state.details,
                                         !.filled = state.filled,
                                         !.missing = state.missing])
    IN  Updated(update_state_c2(session0,
                    extract_entities_c3(message, contract_type, reply, ents)))

\* The part of _handle_generation_flow after the contract type is settled:
\* extraction, state update and the decision on the next step.
ContinueFlow(message, session0, store, reply, ents, generated, contract_id) ==
    LET contract_type == session0.contract_type
        Step(state, session) ==
            IF state.missing # <<>>
            THEN CollectDetails(session, store, state, contract_type)
            ELSE IF ~session.asked_special_clauses
            THEN InviteSpecialClauses(session, store, contract_type)
            ELSE IF session.awaiting_special_clauses /\ ~IsLeaving(message)
            THEN AddSpecialClause(message, session, store, generated, contract_type)
            ELSE ValidateAndGenerate(session, store, contract_type, contract_id)
        Updated(state) ==
            Step(state, [session0 EXCEPT !.details = state.details,
                                         !.filled = state.filled,
                                         !.missing = state.missing])
    IN  Updated(update_state_c2(session0,
                    extract_entities_c3(message, contract_type, reply, ents)))

\* _handle_generation_flow(message, session, intent_result)
handle_generation_flow(message, session, intent_result, store, reply, ents, generated, contract_id) ==
    IF session.contract_type \in {None, ""} /\ intent_result.contract_type = None
    THEN Outcome(session, store,
            Return({"response", "intent"},
                   Response("What type of contract do you need?", <<>>),
                   "CREATE_CONTRACT"))
    ELSE ContinueFlow(message,
            IF session.contract_type \in {None, ""}
            THEN [session EXCEPT !.contract_type = intent_result.contract_type,
                                 !.details = EmptyDict,
                                 !.special_clauses = <<>>,
                                 !.asked_special_clauses = FALSE]
            ELSE IF AsksRestart(message) /\ intent_result.contract_type # None
            THEN [session EXCEPT !.contract_type = intent_result.contract_type,
                                 !.details = EmptyDict,
                                 !.filled = <<>>,
                                 !.missing = <<>>,
                                 !.special_clauses = <<>>,
                                 !.asked_special_clauses = FALSE,
                                 !.awaiting_details = TRUE]
            ELSE session,
            store, reply, ents, generated, contract_id)

(***************************************************************************)
(* Entry points                                                            *)
(***************************************************************************)
\* _handle_question(message, session): _search_law_knowledge always returns
\* a non-empty dict, so the branch taken depends only on the answer the
\* completion service gives
handle_question(session, store, completion) ==
    IF llm_available /\ completion.ok
    THEN Outcome([session EXCEPT !.messages = Append(@, Message("assistant", completion.text))],
                 store,
                 Return({"response", "intent", "sources"},
                        Response(completion.text, <<>>), "QUESTION"))
    ELSE Outcome(session, store,
                 Return({"response", "intent"},
                        Response("Based on Philippine law", <<>>), "QUESTION"))

\* A greeting that also leaves the special-clause sub-flow
handle_greeting_leaving_flow(session, store) ==
    Outcome([session EXCEPT !.messages = Append(@, Message("assistant", greeting_response)),
                            !.awaiting_special_clauses = FALSE],
            store,
            Return({"response", "intent"}, Response(greeting_response, <<>>), "GREETING"))

\* _handle_greeting(session)
handle_greeting(session, store) ==
    Outcome([session EXCEPT !.messages = Append(@, Message("assistant", greeting_response))],
            store,
            Return({"response", "intent"}, Response(greeting_response, <<>>), "GREETING"))

\* The body of process_message(message, session_id) on the session of
\* session_id (the definition at the end of the class, which replaces the
\* earlier one of the same name)
process_message(message, session0, store, reply, ents, completion, contract_id) ==
    LET session == [session0 EXCEPT !.messages = Append(@, Message("user", message))]
        intent_result == DetectIntent(message)
        intent == intent_result.intent
    IN  IF session.awaiting_details
        THEN handle_generation_flow(message, session, NoIntent, store, reply, ents,
                                    completion, contract_id)
        ELSE IF intent = "OUT_OF_SCOPE"
        THEN Outcome([session EXCEPT !.messages =
                          Append(@, Message("assistant", out_of_scope_response))],
                     store,
                     Return({"response", "intent"},
                            Response(out_of_scope_response, <<>>), "OUT_OF_SCOPE"))
        ELSE IF intent = "GREETING"
        THEN handle_greeting(session, store)
        ELSE IF intent = "CREATE_CONTRACT"
        THEN handle_generation_flow(message, session, intent_result, store, reply,
                                    ents, completion, contract_id)
        ELSE IF intent = "ANALYZE_CONTRACT"
        THEN Outcome(session, store,
                     Return({"response", "intent"},
                            Response("I can analyze your contract!", <<>>),
                            "ANALYZE_CONTRACT"))
        ELSE IF intent = "QUESTION"
        THEN handle_question(session, store, completion)
        ELSE IF intent = "PROVIDING_INFO" /\ session.contract_type \notin {None, ""}
        THEN handle_generation_flow(message, session, NoIntent, store, reply, ents,
                                    completion, contract_id)
        ELSE Outcome(session, store,
                     Return({"response", "intent"},
                            Response("I can help you generate contracts", <<>>),
                            "UNKNOWN"))

\* generate_contract(contract_type, details, special_clauses, session_id) on
\* the session of session_id
generate_contract(contract_type, details, special_clauses, session0, store, contract_id) ==
    LET session == [session0 EXCEPT !.contract_type = contract_type]
        Generate(checked) ==
            generate_contract_c5c6(contract_type, checked.details, checked.validation,
                                   session, special_clauses, store, contract_id)
    IN  Generate(validate_against_law_c4(contract_type, details))

(***************************************************************************)
(* Environment and inputs                                                  *)
(***************************************************************************)
SessionIds == {"default"}
\* str(uuid.uuid4())[:8]
ContractIds == {"1b9d6bcd", "6ec0bd7f"}

NoLaws == [key \in {} |-> [required_clauses |-> <<>>, constraints |-> <<>>]]
EmploymentLaws ==
    [key \in {"employment"} |->
        [required_clauses |->
            <<Clause("probationary_period", TRUE, TRUE, "6 months"),
              Clause("place_of_work", TRUE, FALSE, "")>>,
         constraints |-> <<Constraint("salary", TRUE, 10000, TRUE, 100000)>>]]
LawFiles == {NoLaws, EmploymentLaws}

Replies ==
    {NoReply,
     Reply([f \in {"employer_name", "employee_name", "salary", "notes"} |->
              CASE f = "employer_name" -> Str("ABC Corp")
                [] f = "employee_name" -> Str("John Doe")
                [] f = "salary" -> Str("N/A")
                [] f = "notes" -> Str("urgent")])}

Entity(label, text) == [label |-> label, text |-> text]
TaggerOutputs ==
    {<<>>, <<Entity("PERSON", "John Doe"), Entity("MONEY", "PHP 50,000")>>}

Completions == {NoText, Text("NON-COMPETE CLAUSE 1. The Employee shall not compete.")}

DirectTypes == {"EMPLOYMENT", "INVALID_TYPE"}
DirectDetails ==
    {EmptyDict,
     [f \in {"employer_name", "employee_name", "position", "salary", "start_date",
             "employment_type", "work_hours", "benefits"} |->
        CASE f = "employer_name" -> Str("ABC Corporation")
          [] f = "employee_name" -> Str("John Doe")
          [] f = "position" -> Str("Software Engineer")
          [] f = "salary" -> Str("50000")
          [] f = "start_date" -> Str("January 1, 2025")
          [] f = "employment_type" -> Str("Regular")
          [] f = "work_hours" -> Str("8 hours")
          [] f = "benefits" -> Str("Health insurance, 13th month pay")]}
DirectClauses == {<<>>}

NoCall ==
    [op |-> "", session_id |-> "", message |-> "", contract_type |-> None,
     details |-> EmptyDict, special_clauses |-> <<>>]

UserTurns(session) == Len(SelectSeq(session.messages, LAMBDA m : m.role = "user"))
SessionOf(store, session_id) == get_or_create_session(store, session_id)[session_id]

\* The request threads of the host (Flask's development server runs every
\* request in a thread of its own). A thread inside process_message is
\* before the membership test of _get_or_create_session ("idle"), between
\* the test and the assignment of the new dict ("create"), before the
\* return of self.sessions[session_id] ("fetch"), holding the dict ("run"),
\* or back from the call ("done"). The dict it holds is the one in the
\* store (in_store) or one the store no longer refers to (value).
ThreadIds == {"t1", "t2"}
IdleThread ==
    [pc |-> "idle", session_id |-> "", message |-> "",
     in_store |-> FALSE, value |-> NewSession("")]

\* A call of one helper of the agent: the helper and its arguments
NoProbe ==
    [op |-> "", message |-> "", value |-> Str(""), contract_type |-> None,
     reply |-> NoReply, ents |-> <<>>, details |-> EmptyDict]
NoAnswer ==
    [done |-> FALSE, intent |-> NoIntent, filled |-> FALSE, extracted |-> EmptyDict,
     formatted |-> <<>>, validation |-> NewValidation, details |-> EmptyDict]

(***************************************************************************)
(* State machine                                                           *)
(***************************************************************************)
Init ==
    /\ llm_available \in BOOLEAN
    /\ spacy_available \in BOOLEAN
    /\ generators_importable \in BOOLEAN
    /\ ph_laws \in LawFiles
    /\ sessions = [i \in {} |-> NewSession(i)]
    /\ contracts = [i \in {} |-> 0]
    /\ call = NoCall
    /\ result = Return({}, Response("", <<>>), "")
    /\ gen_calls = 0
    /\ threads = [t \in ThreadIds |-> IdleThread]
    /\ probe = NoProbe
    /\ answer = NoAnswer

Apply(session_id, out) ==
    /\ sessions' = [i \in DOMAIN sessions \cup {session_id} |->
                      IF i = session_id THEN out.session ELSE sessions[i]]
    /\ contracts' = out.contracts
    /\ result' = out.ret

ProcessMessage(session_id, message, reply, ents, completion, contract_id) ==
    /\ UserTurns(SessionOf(sessions, session_id)) + gen_calls < MaxCalls
    /\ call' = [NoCall EXCEPT !.op = "process_message",
                              !.session_id = session_id,
                              !.message = message]
    /\ \E out \in {process_message(message, SessionOf(sessions, session_id),
                                    contracts, reply, ents, completion, contract_id)} :
            Apply(session_id, out)
    /\ UNCHANGED <<env, gen_calls, threads, probe, answer>>

GenerateContract(session_id, contract_type, details, special_clauses, contract_id) ==
    /\ UserTurns(SessionOf(sessions, session_id)) + gen_calls < MaxCalls
    /\ gen_calls' = gen_calls + 1
    /\ call' = [NoCall EXCEPT !.op = "generate_contract",
                              !.session_id = session_id,
                              !.contract_type = contract_type,
                              !.details = details,
                              !.special_clauses = special_clauses]
    /\ \E out \in {generate_contract(contract_type, details, special_clauses,
                                      SessionOf(sessions, session_id), contracts,
                                      contract_id)} :
            Apply(session_id, out)
    /\ UNCHANGED <<env, threads, probe, answer>>

\* What the services can return in the running process: _call_llm returns
\* None without a request when the service was not reachable at start-up,
\* and the tagger is only run when it was loaded.
RepliesNow == IF llm_available THEN Replies ELSE {NoReply}
CompletionsNow == IF llm_available THEN Completions ELSE {NoText}
TaggerOutputsNow == IF spacy_available THEN TaggerOutputs ELSE {<<>>}

Next ==
    \/ \E session_id \in SessionIds, message \in Utterances, reply \in RepliesNow,
          ents \in TaggerOutputsNow, completion \in CompletionsNow,
          contract_id \in ContractIds :
            ProcessMessage(session_id, message, reply, ents, completion, contract_id)
    \/ \E session_id \in SessionIds, contract_type \in DirectTypes,
          details \in DirectDetails, special_clauses \in DirectClauses,
          contract_id \in ContractIds :
            GenerateContract(session_id, contract_type, details, special_clauses,
                             contract_id)

Spec == Init /\ [][Next]_vars

(***************************************************************************)
(* Conversations side by side: the chat endpoint passes the session_id of  *)
(* the request body on, so calls for different identifiers alternate.      *)
(***************************************************************************)
TwoSessionIds == {"default", "test_empty"}
SessionUtterances ==
    {"",
     "employment contract",
     "skip",
     "employment contract, employer_name: abc corp, employee_name: john doe, position: clerk, salary: 500, start_date: may 1 2025, work_hours: 8, place_of_work: cebu, employment_type: regular, benefits: sss"}

\* the user turns of all the sessions of the store together
RECURSIVE TurnsIn(_, _)
TurnsIn(store, ids) ==
    IF ids = {} THEN 0
    ELSE LET i == CHOOSE x \in ids : TRUE
         IN  UserTurns(store[i]) + TurnsIn(store, ids \ {i})
TotalCalls == TurnsIn(sessions, DOMAIN sessions) + gen_calls

NextSessions ==
    \E session_id \in TwoSessionIds, message \in SessionUtterances,
       reply \in RepliesNow, ents \in TaggerOutputsNow,
       completion \in CompletionsNow, contract_id \in ContractIds :
        /\ TotalCalls < MaxCalls
        /\ ProcessMessage(session_id, message, reply, ents, completion, contract_id)

SpecSessions == Init /\ [][NextSessions]_vars

(***************************************************************************)
(* A conversation that starts without a category: the agent asks for the   *)
(* type of contract and the user answers with one of the names offered.    *)
(***************************************************************************)
NextCategory ==
    \E session_id \in SessionIds, message \in CategoryTexts,
       reply \in RepliesNow, ents \in TaggerOutputsNow,
       completion \in CompletionsNow, contract_id \in ContractIds :
        ProcessMessage(session_id, message, reply, ents, completion, contract_id)

SpecCategory == Init /\ [][NextCategory]_vars

(***************************************************************************)
(* Two requests for one session identifier in two threads of the host.     *)
(* _get_or_create_session tests, assigns and reads self.sessions in three  *)
(* statements with no lock around them; the interpreter can switch threads *)
(* between any two of them. The statements of process_message that follow  *)
(* the return of the dict are taken in one step.                           *)
(***************************************************************************)
ThreadUtterances == {"employment contract", "hello"}

\* if session_id not in self.sessions
Enter(t, session_id, message) ==
    /\ threads[t].pc = "idle"
    /\ threads' = [threads EXCEPT ![t] =
                      [@ EXCEPT !.pc = IF session_id \in DOMAIN sessions
                                       THEN "fetch" ELSE "create",
                                !.session_id = session_id,
                                !.message = message]]
    /\ UNCHANGED <<env, sessions, contracts, call, result, gen_calls, probe, answer>>

\* self.sessions[session_id] = {...}: the store now refers to a new dict; a
\* thread that holds the dict it referred to keeps that dict
Create(t) ==
    LET session_id == threads[t].session_id
    IN  /\ threads[t].pc = "create"
        /\ sessions' = [i \in DOMAIN sessions \cup {session_id} |->
                          IF i = session_id THEN NewSession(session_id) ELSE sessions[i]]
        /\ threads' = [u \in ThreadIds |->
                          IF u = t THEN [threads[u] EXCEPT !.pc = "fetch"]
                          ELSE IF threads[u].in_store /\ threads[u].session_id = session_id
                          THEN [threads[u] EXCEPT !.in_store = FALSE,
                                                  !.value = sessions[session_id]]
                          ELSE threads[u]]
        /\ UNCHANGED <<env, contracts, call, result, gen_calls, probe, answer>>

\* return self.sessions[session_id]
Fetch(t) ==
    /\ threads[t].pc = "fetch"
    /\ threads' = [threads EXCEPT ![t] = [@ EXCEPT !.pc = "run", !.in_store = TRUE]]
    /\ UNCHANGED <<env, sessions, contracts, call, result, gen_calls, probe, answer>>

\* the rest of process_message, on the dict the thread holds
Run(t, reply, ents, completion, contract_id) ==
    LET me == threads[t]
        held == IF me.in_store THEN sessions[me.session_id] ELSE me.value
    IN  /\ me.pc = "run"
        /\ call' = [NoCall EXCEPT !.op = "process_message",
                                  !.session_id = me.session_id,
                                  !.message = me.message]
        /\ \E out \in {process_message(me.message, held, contracts, reply, ents,
                                        completion, contract_id)} :
                /\ sessions' = IF me.in_store
                               THEN [sessions EXCEPT ![me.session_id] = out.session]
                               ELSE sessions
                /\ threads' = [threads EXCEPT ![t] =
                                  [@ EXCEPT !.pc = "done",
                                            !.in_store = FALSE,
                                            !.value = out.session]]
                /\ contracts' = out.contracts
                /\ result' = out.ret
        /\ UNCHANGED <<env, gen_calls, probe, answer>>

NextThreads ==
    \/ \E t \in ThreadIds, session_id \in SessionIds, message \in ThreadUtterances :
            Enter(t, session_id, message)
    \/ \E t \in ThreadIds : Create(t)
    \/ \E t \in ThreadIds : Fetch(t)
    \/ \E t \in ThreadIds, reply \in RepliesNow, ents \in TaggerOutputsNow,
          completion \in CompletionsNow, contract_id \in ContractIds :
            Run(t, reply, ents, completion, contract_id)

SpecThreads == Init /\ [][NextThreads]_vars

(***************************************************************************)
(* The helpers of the agent applied on their own, as the evaluation        *)
(* scripts call them (evaluation/eval_system.py): the Intent Classifier,  *)
(* the Fill-State Classifier and the Slot Extractor.                       *)
(***************************************************************************)
IntentTexts ==
    {"analyze this contract",
     "review this contract",
     "check this contract",
     "analyze this contract: lease",
     "please create and analyze contract for employment",
     "hi,analyze contract",
     "what is the maximum lease duration",
     "what's the weather today",
     "how do i bake a cake",
     "tell me a joke",
     "weather today?",
     "hello",
     ""}

FieldValues ==
    {Str(""), Str("  "), Str("[x]"), Str("[EMPLOYER]"), Str(" [x] "), Str("[]"),
     Str("[clause one\nclause two]"), Str("..."), Str(".."), Str("...."),
     Str("tbd"), Str("TBD "), Str("tbd."), Str("to be determined"),
     Str("To Be Determined"), Str("n/a"), Str("N/A"), Str("NA"), Str("n//a"),
     Str("x"), Str("ABC Corp"), Str("50000"),
     List(<<>>), List(<<"">>), List(<<" ", "">>), List(<<"[x]">>),
     List(<<"Mark Joseph", "Jaedan Bahala">>)}

ExtractionReplies ==
    Replies \cup {Reply([f \in {"partner_names"} |-> Str("Mark Joseph and Jaedan Bahala")])}

\* details handed to the Rule Validator: the fields its rules name, each
\* absent, unfilled or filled
PlaceValues == {Str(""), Str("tbd"), Str("[x]"), Str("cebu")}
PeriodValues == {Str("n/a"), Str("3 months")}
SalaryValues ==
    {Str("9999.99"), Str("-5"), Str("10000"), Str("100000"), Str("100,001"),
     Str("100000.5"), Str("abc"), Str("tbd"), List(<<"50000">>)}
Field(name, values) ==
    {EmptyDict} \cup {[f \in {name} |-> v] : v \in values}
ValidatorDetails ==
    {Update(Update(place, period), salary) :
        place \in Field("place_of_work", PlaceValues),
        period \in Field("probationary_period", PeriodValues),
        salary \in Field("salary", SalaryValues)}

Probes ==
    {[NoProbe EXCEPT !.op = "detect_intent_c1", !.message = m] : m \in IntentTexts}
    \cup {[NoProbe EXCEPT !.op = "validate_against_law_c4", !.contract_type = c,
                          !.details = d] :
            c \in {"EMPLOYMENT", "LEASE"}, d \in ValidatorDetails}
    \cup {[NoProbe EXCEPT !.op = "is_value_filled", !.value = v] : v \in FieldValues}
    \cup {[NoProbe EXCEPT !.op = "extract_entities_c3", !.message = m,
                          !.contract_type = c, !.reply = r, !.ents = e] :
            m \in ExtractionTexts, c \in {"PARTNERSHIP", "EMPLOYMENT"},
            r \in ExtractionReplies, e \in TaggerOutputs}

InitHelpers ==
    /\ llm_available \in BOOLEAN
    /\ spacy_available \in BOOLEAN
    /\ generators_importable \in BOOLEAN
    /\ ph_laws \in LawFiles
    /\ sessions = [i \in {} |-> NewSession(i)]
    /\ contracts = [i \in {} |-> 0]
    /\ call = NoCall
    /\ result = Return({}, Response("", <<>>), "")
    /\ gen_calls = 0
    /\ threads = [t \in ThreadIds |-> IdleThread]
    /\ probe \in Probes
    /\ answer = NoAnswer

DetectIntentCall ==
    /\ probe.op = "detect_intent_c1"
    /\ ~answer.done
    /\ answer' = [NoAnswer EXCEPT !.done = TRUE, !.intent = detect_intent_c1(probe.message)]
    /\ UNCHANGED <<env, sessions, contracts, call, result, gen_calls, threads, probe>>

IsValueFilledCall ==
    /\ probe.op = "is_value_filled"
    /\ ~answer.done
    /\ answer' = [NoAnswer EXCEPT !.done = TRUE, !.filled = is_value_filled(probe.value)]
    /\ UNCHANGED <<env, sessions, contracts, call, result, gen_calls, threads, probe>>

\* the completion service is asked and the tagger is run only when they are
\* there (extract_entities_c3 tests llm_available and spacy_available)
ExtractEntitiesCall ==
    /\ probe.op = "extract_entities_c3"
    /\ ~answer.done
    /\ answer' = [NoAnswer EXCEPT
                    !.done = TRUE,
                    !.extracted = extract_entities_c3(probe.message, probe.contract_type,
                                                      probe.reply, probe.ents)]
    /\ UNCHANGED <<env, sessions, contracts, call, result, gen_calls, threads, probe>>

ValidateCall ==
    /\ probe.op = "validate_against_law_c4"
    /\ ~answer.done
    /\ \E out \in {validate_against_law_c4(probe.contract_type, probe.details)} :
            answer' = [NoAnswer EXCEPT !.done = TRUE, !.validation = out.validation,
                                       !.details = out.details]
    /\ UNCHANGED <<env, sessions, contracts, call, result, gen_calls, threads, probe>>

NextHelpers ==
    DetectIntentCall \/ IsValueFilledCall \/ ExtractEntitiesCall \/ ValidateCall

SpecHelpers == InitHelpers /\ [][NextHelpers]_vars

(***************************************************************************)
(* The formatters applied on their own and again on their own result, as   *)
(* _format_contract_inputs applies them to the details of each generation. *)
(***************************************************************************)
NameTexts ==
    {"john doe", "john dela cruz", "John dela Cruz", "john cruz jr", "JOHN CRUZ SR",
     "juan de la cruz iii", "  mark   neypes ", "maria san jose", "jr", ""}

\* amounts with at most FractionDigits digits after the point
MoneyTexts ==
    {"50000", "50,000.00", "50,000", "PHP 3,000", "3,000.50", "1,234.56", "0.50",
     "100", "1000000", "$ 1,000.10", "5.", ".5", "abc", "1.2.3", ""}

MaxFormatCalls == 2

FormatProbes ==
    {[NoProbe EXCEPT !.op = "format_name", !.message = t] : t \in NameTexts}
    \cup {[NoProbe EXCEPT !.op = "format_money", !.message = t] : t \in MoneyTexts}

InitFormat ==
    /\ llm_available \in BOOLEAN
    /\ spacy_available \in BOOLEAN
    /\ generators_importable \in BOOLEAN
    /\ ph_laws \in LawFiles
    /\ sessions = [i \in {} |-> NewSession(i)]
    /\ contracts = [i \in {} |-> 0]
    /\ call = NoCall
    /\ result = Return({}, Response("", <<>>), "")
    /\ gen_calls = 0
    /\ threads = [t \in ThreadIds |-> IdleThread]
    /\ probe \in FormatProbes
    /\ answer = NoAnswer

\* the text the next call is given: the input, then the last result
FormatInput == IF answer.formatted = <<>> THEN probe.message
               ELSE answer.formatted[Len(answer.formatted)]

FormatNameCall ==
    /\ probe.op = "format_name"
    /\ Len(answer.formatted) < MaxFormatCalls
    /\ answer' = [answer EXCEPT !.done = TRUE,
                                !.formatted = Append(@, format_name(FormatInput))]
    /\ UNCHANGED <<env, sessions, contracts, call, result, gen_calls, threads, probe>>

FormatMoneyCall ==
    /\ probe.op = "format_money"
    /\ Len(answer.formatted) < MaxFormatCalls
    /\ answer' = [answer EXCEPT !.done = TRUE,
                                !.formatted = Append(@, format_money(FormatInput))]
    /\ UNCHANGED <<env, sessions, contracts, call, result, gen_calls, threads, probe>>

NextFormat == FormatNameCall \/ FormatMoneyCall

SpecFormat == InitFormat /\ [][NextFormat]_vars

(***************************************************************************)
(* Properties                                                              *)
(***************************************************************************)
\* the session a call works on, before and after the call
Before(session_id) == SessionOf(sessions, session_id)
After(session_id) == sessions'[session_id]

\* the texts of the user's turns of a session, in order
UserTexts(session) ==
    LET turns == SelectSeq(session.messages, LAMBDA m : m.role = "user")
    IN  [n \in 1..Len(turns) |-> turns[n].content]

\* the empty contract-collection state
IsIdle(session) ==
    /\ session.contract_type = None
    /\ session.details = EmptyDict
    /\ session.filled = <<>>
    /\ session.missing = <<>>
    /\ session.special_clauses = <<>>
    /\ ~session.awaiting_details
    /\ ~session.asked_special_clauses
    /\ ~session.awaiting_special_clauses

\* the contract-collection part of two session states is the same
SameCollection(s, u) ==
    /\ u.contract_type = s.contract_type
    /\ u.details = s.details
    /\ u.filled = s.filled
    /\ u.missing = s.missing
    /\ u.special_clauses = s.special_clauses
    /\ u.awaiting_details = s.awaiting_details
    /\ u.asked_special_clauses = s.asked_special_clauses
    /\ u.awaiting_special_clauses = s.awaiting_special_clauses

\* the returned dict is the reply to a validation with blocking errors
IsValidationFailure(ret) == "validation" \in ret.keys /\ ~ret.validation.valid
\* the returned dict comes from the except branch of _generate_contract_c5c6
IsRenderFailure(ret) == ret.response.template = "Error"
\* the turn got as far as validating the details
ReachedValidation(ret) ==
    \/ "validation" \in ret.keys
    \/ ret.response.template \in {"Error", "Unknown contract type"}

\* the store holds the record the last call reports, it is an EMPLOYMENT
\* record and it has no special clause
EmploymentRecordSaved ==
    /\ result.success
    /\ result.contract_id \in DOMAIN contracts
    /\ contracts[result.contract_id].type = "EMPLOYMENT"
    /\ contracts[result.contract_id].special_clauses = <<>>

FiveFieldTurn ==
    "Employer: ABC Corp, Employee: John Doe, Position: Engineer, Salary: 50000, Start Date: January 1 2025"
EveryFieldTurn ==
    "employment contract, employer_name: abc corp, employee_name: john doe, position: clerk, salary: 500, start_date: may 1 2025, work_hours: 8, place_of_work: cebu, employment_type: regular, benefits: sss"

\* the session has seen exactly the three turns, and no direct generation
ThreeTurns(session_id, second) ==
    /\ session_id \in DOMAIN sessions
    /\ gen_calls = 0
    /\ UserTexts(sessions[session_id]) = <<"employment contract", second, "skip">>

C2_FilledMissingPartitionSchema ==
    \A session_id \in DOMAIN sessions :
        LET s == sessions[session_id]
        IN  s.contract_type # None =>
                /\ Range(s.filled) \cup Range(s.missing) = Range(Schema(s.contract_type))
                /\ Range(s.filled) \cap Range(s.missing) = {}

\* C3: a call that finalizes a contract record leaves the session idle
\* (category null; details, filled, missing, special clauses empty; the
\* three flags false) and keeps the message log: the log is the log before
\* the call, with the user's turn appended when the call is a chat turn.
C3_FinalizationResetsSession ==
    [][result'.success =>
        LET s == Before(call'.session_id)
            u == After(call'.session_id)
        IN  /\ IsIdle(u)
            /\ u.messages = IF call'.op = "process_message"
                            THEN Append(s.messages, Message("user", call'.message))
                            ELSE s.messages]_vars

\* a chat turn has finalized a record from a flow with collected details,
\* and the session is idle with its log kept
C3_FinalizationWitness ==
    /\ result.success
    /\ call.op = "process_message"
    /\ contracts[result.contract_id].original_details # EmptyDict
    /\ IsIdle(sessions[call.session_id])
    /\ Len(sessions[call.session_id].messages) = 3

\* C4: a chat turn whose validation reports a blocking error creates no
\* record, answers with the list of the blocking errors, and leaves the
\* session with its category and with every collected field still in
\* details, every field of the schema still filled.
C4_ValidationFailureKeepsFlow ==
    [][(call'.op = "process_message" /\ IsValidationFailure(result')) =>
        LET s == Before(call'.session_id)
            u == After(call'.session_id)
        IN  /\ contracts' = contracts
            /\ ~result'.success
            /\ result'.validation.errors # <<>>
            /\ result'.response.items = result'.validation.errors
            /\ u.contract_type = s.contract_type
            /\ u.contract_type # None
            /\ DOMAIN s.details \subseteq DOMAIN u.details
            /\ \A f \in Range(Schema(u.contract_type)) : FieldFilled(u.details, f)]_vars

\* a chat turn has ended in a validation failure
C4_ValidationFailureWitness ==
    /\ call.op = "process_message"
    /\ IsValidationFailure(result)
    /\ sessions[call.session_id].contract_type = "EMPLOYMENT"
    /\ sessions[call.session_id].details # EmptyDict

\* C5 as stated, for a direct generation: when the renderer raises, the
\* call reports failure, adds no record, and the session's category,
\* details and special clauses are what they were before the call.
C5_RenderFailureKeepsSession ==
    [][(call'.op = "generate_contract" /\ IsRenderFailure(result')) =>
        LET s == Before(call'.session_id)
            u == After(call'.session_id)
        IN  /\ ~result'.success
            /\ contracts' = contracts
            /\ u.contract_type = s.contract_type
            /\ u.details = s.details
            /\ u.special_clauses = s.special_clauses]_vars

\* C6 as stated: while a flow is active (category set, required fields
\* missing), a turn with "new", "another" or "different" that names a
\* category restarts collection for that category: the session takes the
\* named category, filled and missing partition its schema, and the special
\* clauses of the abandoned flow are gone.
C6_RestartMidFlow ==
    [][(/\ call'.op = "process_message"
        /\ Before(call'.session_id).contract_type \in Categories
        /\ Before(call'.session_id).missing # <<>>
        /\ AsksRestart(call'.message)
        /\ detect_contract_type(call'.message) # None) =>
        LET u == After(call'.session_id)
        IN  /\ u.contract_type = detect_contract_type(call'.message)
            /\ Range(u.filled) \cup Range(u.missing) = Range(Schema(u.contract_type))
            /\ \A f \in DOMAIN u.details : f \in Range(Schema(u.contract_type))
            /\ u.special_clauses = <<>>]_vars

\* C7 as stated: whenever the session awaits special-clause input, a turn
\* that is an exit phrase ends clause collection and reaches validation in
\* that same turn.
C7_ExitPhraseEndsCollection ==
    [][(/\ call'.op = "process_message"
        /\ Before(call'.session_id).awaiting_special_clauses
        /\ IsLeaving(call'.message)) =>
        /\ ~After(call'.session_id).awaiting_special_clauses
        /\ ReachedValidation(result')]_vars

\* C8 as stated: while the session awaits special-clause input, a turn that
\* is no exit phrase appends exactly one entry to the special-clause list
\* and leaves the session awaiting; without the completion service the
\* entry is the user's text, and the turn does not fail.
C8_OtherTurnAppendsOneClause ==
    [][(/\ call'.op = "process_message"
        /\ Before(call'.session_id).awaiting_special_clauses
        /\ ~IsLeaving(call'.message)) =>
        LET s == Before(call'.session_id)
            u == After(call'.session_id)
        IN  /\ Len(u.special_clauses) = Len(s.special_clauses) + 1
            /\ SubSeq(u.special_clauses, 1, Len(s.special_clauses)) = s.special_clauses
            /\ u.awaiting_special_clauses
            /\ ~llm_available =>
                    u.special_clauses[Len(u.special_clauses)] = call'.message
            /\ "error" \notin result'.keys]_vars

\* C9: a chat turn finalizes a record only when the invitation to add
\* special clauses was emitted before the turn in the same flow, clause
\* collection is over (it was over before the turn, or the turn is an exit
\* phrase), and every field of the schema is filled in the record's details.
C9_RecordOnlyAfterCollection ==
    [][(call'.op = "process_message" /\ result'.success) =>
        LET s == Before(call'.session_id)
            record == contracts'[result'.contract_id]
        IN  /\ s.asked_special_clauses
            /\ s.awaiting_special_clauses => IsLeaving(call'.message)
            /\ s.contract_type = record.type
            /\ \A f \in Range(Schema(record.type)) :
                    FieldFilled(record.original_details, f)]_vars

\* a chat turn that is an exit phrase has finalized a record
C9_ChatFinalizationWitness ==
    /\ call.op = "process_message"
    /\ IsLeaving(call.message)
    /\ result.success
    /\ result.contract_id \in DOMAIN contracts
    /\ Range(Schema(result.contract_type)) # {}

\* C10: a turn handled as GREETING or OUT_OF_SCOPE leaves the session's
\* category, details, filled, missing, special clauses and three flags as
\* they were; the log grows by the user's turn and the agent's answer.
C10_GreetingAndOutOfScopeFrame ==
    [][(call'.op = "process_message"
        /\ result'.intent \in {"GREETING", "OUT_OF_SCOPE"}) =>
        LET s == Before(call'.session_id)
            u == After(call'.session_id)
        IN  /\ SameCollection(s, u)
            /\ Len(u.messages) = Len(s.messages) + 2
            /\ SubSeq(u.messages, 1, Len(s.messages)) = s.messages
            /\ u.messages[Len(s.messages) + 1] = Message("user", call'.message)]_vars

\* a greeting or an out-of-scope turn has been handled in a session that
\* has a category and collected details
C10_FrameWitness ==
    /\ call.op = "process_message"
    /\ result.intent \in {"GREETING", "OUT_OF_SCOPE"}
    /\ sessions[call.session_id].contract_type = "EMPLOYMENT"
    /\ sessions[call.session_id].details # EmptyDict

\* one sequence is the beginning of the other
IsPrefix(p, q) == Len(p) <= Len(q) /\ SubSeq(q, 1, Len(p)) = p

\* C11 as stated: when two process_message calls for one session identifier
\* run in two threads of the host, the outcome is that of the two calls one
\* after the other: once both have returned, the store holds one session
\* for the identifier and its log has the user message of both calls.
C11_ConcurrentCallsSerialize ==
    (\A t \in ThreadIds : threads[t].pc = "done") =>
        \E first, second \in ThreadIds :
            /\ first # second
            /\ threads[first].session_id \in DOMAIN sessions
            /\ UserTexts(sessions[threads[first].session_id])
                    = <<threads[first].message, threads[second].message>>

\* C12: process_message creates the session on the first message for its
\* identifier and works on the same session afterwards (the log it finds
\* is kept and grows by the turn), and it leaves every session with
\* another identifier exactly as it was.
C12_SessionsCreatedOnceAndApart ==
    [][call'.op = "process_message" =>
        LET a == call'.session_id
        IN  /\ DOMAIN sessions' = DOMAIN sessions \cup {a}
            /\ \A b \in DOMAIN sessions \ {a} : sessions'[b] = sessions[b]
            /\ sessions'[a].id = a
            /\ IF a \in DOMAIN sessions
               THEN /\ IsPrefix(sessions[a].messages, sessions'[a].messages)
                    /\ UserTurns(sessions'[a]) = UserTurns(sessions[a]) + 1
               ELSE UserTexts(sessions'[a]) = <<call'.message>>]_vars

\* the session "default" has taken its second turn while the session
\* "test_empty" was collecting the fields of a contract
C12_TwoSessionsWitness ==
    /\ DOMAIN sessions = TwoSessionIds
    /\ call.op = "process_message"
    /\ call.session_id = "default"
    /\ UserTurns(sessions["default"]) = 2
    /\ sessions["test_empty"].awaiting_details
    /\ sessions["test_empty"].missing # <<>>

\* C13: whatever the message text (the empty string included) and whatever
\* state the session is in, process_message returns a dict that has a
\* response text.
C13_EveryMessageGetsAResponse ==
    call.op = "process_message" =>
        /\ "response" \in result.keys
        /\ result.response.template # ""

\* the empty message was sent to a session that is collecting the fields
\* of a contract, and was answered
C13_EmptyMessageWitness ==
    /\ call.op = "process_message"
    /\ call.message = ""
    /\ sessions[call.session_id].awaiting_details
    /\ UserTurns(sessions[call.session_id]) >= 2
    /\ "response" \in result.keys

\* C14: generate_contract with a category that is none of EMPLOYMENT,
\* PARTNERSHIP, LEASE, BUY_SELL returns a dict with success false and a
\* response text, and the contract store stays as it was.
C14_UnknownCategoryFails ==
    [][(call'.op = "generate_contract" /\ call'.contract_type \notin Categories) =>
        /\ {"response", "success"} \subseteq result'.keys
        /\ ~result'.success
        /\ result'.response.template # ""
        /\ contracts' = contracts]_vars

\* generate_contract was called with an unknown category after a record
\* had been saved, and the store still holds that record
C14_UnknownCategoryWitness ==
    /\ call.op = "generate_contract"
    /\ call.contract_type = "INVALID_TYPE"
    /\ ~result.success
    /\ contracts # [i \in {} |-> 0]

\* C15 as stated: a successful generation adds exactly one record, under an
\* identifier the store did not hold before, and no call changes or
\* replaces a record that is in the store.
C15_RecordsAddedOnceNeverReplaced ==
    [][/\ \A i \in DOMAIN contracts :
            i \in DOMAIN contracts' /\ contracts'[i] = contracts[i]
       /\ result'.success =>
            /\ result'.contract_id \notin DOMAIN contracts
            /\ DOMAIN contracts' = DOMAIN contracts \cup {result'.contract_id}]_vars

\* C16 as stated: an utterance that contains an analysis-request phrase is
\* classified ANALYZE_CONTRACT, whatever else it contains.
C16_AnalysisPhraseWins ==
    (/\ probe.op = "detect_intent_c1"
     /\ answer.done
     /\ ContainsAny(Lower(probe.message), analysis_patterns))
        => answer.intent.intent = "ANALYZE_CONTRACT"

\* the questions without contract or law content of the evaluation scripts
OffTopicQuestions ==
    {"what's the weather today", "how do i bake a cake", "weather today?"}

\* C17 as stated: an utterance with no contract or law content that is
\* phrased as a question is classified OUT_OF_SCOPE, never QUESTION.
C17_OffTopicQuestionOutOfScope ==
    (/\ probe.op = "detect_intent_c1"
     /\ answer.done
     /\ probe.message \in OffTopicQuestions)
        => answer.intent.intent = "OUT_OF_SCOPE"

\* the values C18 lists as unfilled: falsy, empty after trimming, the empty
\* list, bracket-wrapped text, text of dots only, "to be determined",
\* "tbd", "n/a" with or without the slash (case-insensitive)
ListedAsUnfilled(value) ==
    IF IsList(value) THEN value.v = <<>>
    ELSE LET t == Lower(Strip(value.v))
         IN  \/ t = ""
             \/ Len(t) >= 2 /\ StartsWith(t, "[") /\ EndsWith(t, "]")
             \/ Len(t) >= 3 /\ \A i \in 1..Len(t) : CharAt(t, i) = "."
             \/ t \in {"to be determined", "tbd", "n/a", "na"}

\* C18 as stated: the Fill-State Classifier returns unfilled for the listed
\* values and filled for every other non-empty value.
C18_UnfilledExactlyWhenListed ==
    (probe.op = "is_value_filled" /\ answer.done)
        => (answer.filled <=> ~ListedAsUnfilled(probe.value))

\* C19 as stated: every key of the mapping the Slot Extractor returns is a
\* field of the resolved schema of the category, whichever strategy
\* produced it.
C19_ExtractedKeysInSchema ==
    (probe.op = "extract_entities_c3" /\ answer.done)
        => DOMAIN answer.extracted \subseteq Range(Schema(probe.contract_type))

\* C20 as stated: when the Slot Extractor returns partner_names for a
\* PARTNERSHIP turn, the value is a list with one entry per party, never a
\* single string.
C20_PartnerNamesIsList ==
    (/\ probe.op = "extract_entities_c3"
     /\ answer.done
     /\ probe.contract_type = "PARTNERSHIP"
     /\ "partner_names" \in DOMAIN answer.extracted)
        => IsList(answer.extracted["partner_names"])

\* C21: formatting a name a second time changes nothing:
\* format_name(format_name(x)) = format_name(x) for every name x, names with
\* particles and suffixes included.
C21_FormatNameIdempotent ==
    probe.op = "format_name"
        => \A i \in 2..Len(answer.formatted) : answer.formatted[i] = answer.formatted[1]

\* the amounts written with thousands separators and two decimals
TwoDecimalTexts == {t \in MoneyTexts : Len(t) >= 8 /\ CharAt(t, Len(t) - 2) = "."
                                       /\ CharAt(t, Len(t) - 6) = ","}

\* C22 (as stated): an amount written with thousands separators and two
\* decimals, such as "50,000.00", is returned unchanged by format_money.
C22_TwoDecimalAmountUnchanged ==
    (probe.op = "format_money" /\ probe.message \in TwoDecimalTexts
        /\ answer.formatted # <<>>)
        => answer.formatted[1] = probe.message

\* a result of format_money that parsed as an amount ends in no zero decimal
\* and in no point
IsShortestAmount(t) ==
    /\ CharAt(t, Len(t)) # "."
    /\ Contains(t, ".") => CharAt(t, Len(t)) # "0"

\* C22 (amended): format_money drops the zero decimals ("50,000.00" gives
\* "50,000", "3,000.50" gives "3,000.5"), and formatting its result again
\* returns the result unchanged.
C22_FormatMoneyIdempotent ==
    /\ probe.op = "format_money"
            => \A i \in 2..Len(answer.formatted) : answer.formatted[i] = answer.formatted[1]
    /\ (probe.op = "format_money" /\ probe.message \in TwoDecimalTexts
            /\ answer.formatted # <<>>)
            => IsShortestAmount(answer.formatted[1])
    /\ (probe.op = "format_money" /\ probe.message = "50,000.00"
            /\ answer.formatted # <<>>)
            => answer.formatted[1] = "50,000"

C22_TwoDecimalAmountWitness ==
    /\ probe.op = "format_money"
    /\ probe.message = "50,000.00"
    /\ Len(answer.formatted) >= 2
    /\ answer.formatted[1] = "50,000"
    /\ answer.formatted[2] = "50,000"

\* what each strategy of the Slot Extractor returns for the probed turn, in
\* the order of priority: partner-name pre-pass, completion service, pattern
\* matching, named-entity tagging
StrategyResults ==
    LET required_fields == Schema(probe.contract_type)
        partners == ExtractPartnerNames(probe.message)
    IN  << IF probe.contract_type = "PARTNERSHIP"
              /\ "partner_names" \in Range(required_fields) /\ partners # <<>>
           THEN [f \in {"partner_names"} |-> List(partners)] ELSE EmptyDict,
           IF llm_available THEN llm_extraction(probe.contract_type, probe.reply)
           ELSE EmptyDict,
           RegexExtraction(probe.message, required_fields),
           IF spacy_available THEN spacy_extraction(probe.ents, required_fields)
           ELSE EmptyDict >>

\* C23: the Slot Extractor returns, for every field, the value of the first
\* strategy (in priority order) that produced the field; a later strategy only
\* adds fields that no earlier one produced.
C23_EarlierStrategyWins ==
    (probe.op = "extract_entities_c3" /\ answer.done)
        => /\ DOMAIN answer.extracted = UNION {DOMAIN StrategyResults[i] : i \in 1..4}
           /\ \A k \in DOMAIN answer.extracted :
                \E i \in 1..4 :
                    /\ k \in DOMAIN StrategyResults[i]
                    /\ \A j \in 1..(i - 1) : k \notin DOMAIN StrategyResults[j]
                    /\ answer.extracted[k] = StrategyResults[i][k]

\* the completion service and the tagger give different values for one field
\* and the value of the completion service is returned
C23_TwoStrategiesWitness ==
    /\ probe.op = "extract_entities_c3"
    /\ answer.done
    /\ \E k \in DOMAIN StrategyResults[2] \cap DOMAIN StrategyResults[4] :
            /\ StrategyResults[2][k] # StrategyResults[4][k]
            /\ answer.extracted[k] = StrategyResults[2][k]

\* the probed call of the Rule Validator has returned, and the rule file of
\* the category was loaded
Validated ==
    /\ probe.op = "validate_against_law_c4"
    /\ answer.done
    /\ Lower(probe.contract_type) \in DOMAIN ph_laws
RulesOfProbe == ph_laws[Lower(probe.contract_type)]

\* number of entries of a list equal to one text
Count(list, text) == Cardinality({n \in 1..Len(list) : list[n] = text})

\* C24: for each required-clause rule whose field is missing from details or
\* unfilled, a declared default is written into details with an
\* applied-default note and without a blocking error for the field; without a
\* default, a mandatory rule records exactly one blocking error.
C24_MissingOrUnfilledClauseField ==
    Validated =>
        \A n \in 1..Len(RulesOfProbe.required_clauses) :
            LET clause == RulesOfProbe.required_clauses[n]
                error == "Missing required: " \o NiceName(clause.name)
                note == NiceName(clause.name) \o ": " \o clause.default
            IN  (clause.name \notin DOMAIN probe.details
                    \/ ~is_value_filled(probe.details[clause.name]))
                => IF clause.has_default
                   THEN /\ clause.name \in DOMAIN answer.details
                        /\ answer.details[clause.name] = Str(clause.default)
                        /\ Count(answer.validation.applied_defaults, note) = 1
                        /\ Count(answer.validation.errors, error) = 0
                   ELSE clause.mandatory => Count(answer.validation.errors, error) = 1

\* the salaries of the probes against the rule min 10000, max 100000
BelowMinimum == {Str("9999.99"), Str("-5")}
AboveMaximum == {Str("100,001"), Str("100000.5")}
NotNumbers == {Str("abc"), Str("tbd"), List(<<"50000">>)}
SalaryBelow == "Salary: Below minimum of 10000"
SalaryAbove == "Salary: Above maximum of 100000"

\* C25: a numeric value below the minimum records a blocking error, a value
\* above the maximum records a warning and no error, a value that does not
\* parse records nothing, and the outcome is valid exactly when no blocking
\* error was recorded.
C25_NumericConstraintOutcome ==
    /\ (probe.op = "validate_against_law_c4" /\ answer.done)
            => (answer.validation.valid <=> answer.validation.errors = <<>>)
    /\ (Validated /\ probe.contract_type = "EMPLOYMENT"
            /\ "salary" \in DOMAIN probe.details)
            => LET salary == probe.details["salary"]
                   outcome == answer.validation
               IN  /\ Count(outcome.errors, SalaryBelow)
                        = (IF salary \in BelowMinimum THEN 1 ELSE 0)
                   /\ Count(outcome.warnings, SalaryAbove)
                        = (IF salary \in AboveMaximum THEN 1 ELSE 0)
                   /\ Count(outcome.errors, SalaryAbove) = 0
                   /\ Count(outcome.warnings, SalaryBelow) = 0
                   /\ salary \in NotNumbers
                        => \A text \in Range(outcome.errors) \cup Range(outcome.warnings) :
                                ~StartsWith(text, "Salary")

\* a salary above the maximum, every clause field filled: one warning, valid
C25_AboveMaximumWitness ==
    /\ Validated
    /\ "salary" \in DOMAIN probe.details
    /\ probe.details["salary"] = Str("100,001")
    /\ answer.validation.warnings = <<SalaryAbove>>
    /\ answer.validation.errors = <<>>
    /\ answer.validation.valid

\* C26: every record of the contract store carries a validation outcome with
\* valid = TRUE and no blocking error, whether the chat flow or a direct
\* generate_contract call created it.
C26_RecordsAreValid ==
    \A id \in DOMAIN contracts :
        /\ contracts[id].validation.valid
        /\ contracts[id].validation.errors = <<>>

\* C27: in every reachable state the category of every session is null or one
\* of EMPLOYMENT, PARTNERSHIP, LEASE, BUY_SELL.
C27_CategoryIsKnown ==
    \A session_id \in DOMAIN sessions :
        sessions[session_id].contract_type \in Categories \cup {None}

\* a process_message step on a session that is in a collection flow and stays
\* in it: the category is kept and the turn neither asks for another contract
\* nor gets as far as validation and generation
FlowTurn(session_id) ==
    /\ call'.op = "process_message"
    /\ call'.session_id = session_id
    /\ session_id \in DOMAIN sessions
    /\ Before(session_id).contract_type # None
    /\ After(session_id).contract_type = Before(session_id).contract_type
    /\ ~AsksRestart(call'.message)
    /\ ~ReachedValidation(result')

\* C29: within one collection flow a field that is in the filled list after a
\* turn is in the filled list after every later turn.
C29_FilledStaysFilled ==
    [][\A session_id \in SessionIds :
        FlowTurn(session_id)
            => Range(Before(session_id).filled) \subseteq Range(After(session_id).filled)]_vars

\* C30: a turn handled while the session awaits special-clause input leaves
\* the details, the filled list and the missing list of the session as they
\* were.
C30_ClauseTurnKeepsDetails ==
    [][\A session_id \in SessionIds :
        (FlowTurn(session_id) /\ Before(session_id).awaiting_special_clauses)
            => /\ After(session_id).details = Before(session_id).details
               /\ After(session_id).filled = Before(session_id).filled
               /\ After(session_id).missing = Before(session_id).missing]_vars

\* the category each name of the category prompt stands for
OfferedCategory ==
    [name \in {"Employment", "Partnership", "Lease", "Buy and Sell"} |->
        CASE name = "Employment" -> "EMPLOYMENT"
          [] name = "Partnership" -> "PARTNERSHIP"
          [] name = "Lease" -> "LEASE"
          [] name = "Buy and Sell" -> "BUY_SELL"]

\* the last call answered the session with the category prompt
AskedForCategory(session_id) ==
    /\ call.op = "process_message"
    /\ call.session_id = session_id
    /\ result.response.template = "What type of contract do you need?"

\* C28: after the category prompt, a turn that consists of one of the four
\* category names offered sets the category of the session to that category
\* and starts the collection of its required fields.
C28_OfferedNameSelectsCategory ==
    [][\A session_id \in SessionIds :
        (/\ AskedForCategory(session_id)
         /\ call'.op = "process_message"
         /\ call'.session_id = session_id
         /\ call'.message \in DOMAIN OfferedCategory)
            => /\ After(session_id).contract_type = OfferedCategory[call'.message]
               /\ After(session_id).awaiting_details
                    \/ After(session_id).awaiting_special_clauses]_vars

====
